---- MODULE Spec2Model ----
(***************************************************************************)
(* The transfer protocol engine of NetLink: TransferServer                 *)
(* (src/transfer_server.py) receiving over one TCP connection at a time,   *)
(* and a sender that follows TransferClient (src/transfer_client.py) and   *)
(* may be cut off at any point, as test_resume.py's partial_send is.       *)
(*                                                                         *)
(* A connection is two byte streams.  The client-to-server stream c2s is   *)
(* a sequence of tokens: one token for each header field the sender writes *)
(* with one sendall (magic, filename, size, chunk size, digest, count) and *)
(* one token for each content byte.  A close is graceful: everything       *)
(* written before it is delivered before the end of stream is seen.        *)
(***************************************************************************)
EXTENDS Integers, Sequences, FiniteSets, TLC

\* Largest file length sent over the resumable protocol (content is a sequence over
\* Bytes).
MaxSize == 3

\* Largest file length sent over the single-file and multi-file protocols.
MaxPlainSize == 2

\* BUFFER_SIZE of both classes (4096 in the source), scaled to the file sizes.
BUFFER_SIZE == 2

\* Most files in one multi-file send.
MaxFiles == 2

Bytes == {0, 1}
Names == {"a", "b"}
\* The names resumable transfers are made under.
ResumableNames == {"a"}

MAGIC_SINGLE == 1      \* 0xFFFF0001
MAGIC_MULTI == 2       \* 0xFFFF0002
MAGIC_RESUMABLE == 3   \* 0xFFFF0003
MAGIC_UNKNOWN == 4     \* any other first four bytes

Min(a, b) == IF a < b THEN a ELSE b

\* The files sent: for each length two contents, alternating bytes that start
\* with 1 (seed "a") or with 0 (seed "b"), so that any two of the same length differ
\* in every byte and neighbouring bytes of a file differ.
Pattern(seed, n) == [i \in 1..n |-> (i + (IF seed = "a" THEN 0 ELSE 1)) % 2]
Contents == {Pattern(seed, n) : seed \in Names, n \in 0..MaxSize}

\* A path of the output directory: absent, or a file with its bytes.
NoFile == [exists |-> FALSE, data |-> <<>>]
File(d) == [exists |-> TRUE, data |-> d]

\* A digest that tells files apart by their length alone.
Sha256Weak(d) == Len(d) + 1

\* hashlib.sha256 over a whole file, as a collision-free code of the bytes:
\* a leading 1 followed by the bytes, read as a binary number.
RECURSIVE Sha256(_)
Sha256(d) == IF d = <<>> THEN 1 ELSE 2 * Sha256(SubSeq(d, 1, Len(d) - 1)) + d[Len(d)]

Tok(k, v) == [k |-> k, v |-> v]
ByteToks(d) == [i \in 1..Len(d) |-> Tok("byte", d[i])]

\* The first n tokens when they are all content bytes.
RECURSIVE LeadingBytes(_)
LeadingBytes(s) ==
    IF s = <<>> \/ s[1].k # "byte" THEN 0 ELSE 1 + LeadingBytes(Tail(s))
BytesOf(s, n) == [i \in 1..n |-> s[i].v]
Drop(s, n) == SubSeq(s, n + 1, Len(s))

VARIABLES
    \* the output directory
    dest,        \* [Names -> file]: output_dir / filename
    partial,     \* [Names -> file]: the .partial sibling
    \* the connection
    c2s,         \* tokens written by the sender and not yet read
    s2c,         \* replies written by the receiver and not yet read
    cclosed,     \* the sender closed its socket
    sclosed,     \* the receiver closed conn
    pending,     \* connected, not yet accepted
    \* TransferServer: position and locals of the handler
    spc, sproto, sname, ssize, sdigest, received, scount, sidx,
    \* the sender: position and locals
    family,      \* the protocols the senders of this run speak
    cpc, cproto, ccount, cfiles, cidx, coff, csent, cres,
    \* history of the current connection
    dest0,       \* dest when the connection was made
    partial0,    \* partial when the connection was made
    got,         \* content bytes the receiver appended on this connection
    cwrote,      \* content bytes the sender wrote on this connection
    offsets,     \* offset replies the receiver sent
    statuses,    \* 2-byte statuses the receiver sent
    verdict,     \* "none", "match", "mismatch": the digest comparison
    hashed,      \* the file content the receiver hashed
    rlog,        \* per file received: [name, size, got]
    calls,       \* per-file receives run by the multi-file loop
    fault,       \* the filesystem failure met on this connection
    \* history across connections
    prev,        \* summary of the connection before this one
    tampered     \* the partial file was changed since the last connection

\* TransferServer.start seen from its listening socket, with any number of clients
VARIABLES
    backlog,     \* connections made and not yet accepted, oldest first
    lpc,         \* where the loop of start is: "accept" or "handle"
    active,      \* the connections a handler is running for
    conns,       \* per connection: "none", "queued", "handled", "closed"
    ended        \* per connection: how its handler ended, "none" before

\* TransferClient._retry_with_backoff around one send operation
VARIABLES
    rpc,         \* "idle", "attempt", "sleep", "returned", "raised"
    rop,         \* the operation: "single", "multiple", "directory"
    attempt,     \* the loop variable of _retry_with_backoff
    tried,       \* per attempt made: what the operation raised and the reply it read
    slept        \* the arguments of time.sleep, in order

\* A sending loop of TransferClient under its pause_event
VARIABLES
    pause_event, \* the flag of the threading.Event: TRUE when set
    ppc,         \* "idle", "check", "write", "done"
    pkind,       \* the loop: "single", "multiple", "directory"
    pfiles,      \* the sizes of the files to send
    pidx,        \* the file being sent
    psent,       \* sent, of the current file
    pfrom,       \* where sending of the current file started (the offset reply)
    pwrote,      \* the content bytes written of the current file
    pgate        \* chunks written since the flag was last cleared

\* ServiceDiscovery instances on one network, and the clock
VARIABLES
    now,         \* time.time(), in seconds
    running,     \* per instance: self.running
    started,     \* per instance: when start() was called, -1 before
    listening,   \* per instance: the listen socket is bound
    nextBeacon,  \* per instance: when the broadcaster's sleep ends
    reaper,      \* per instance: the cleanup thread is alive
    nextReap,    \* per instance: when the cleanup thread's sleep ends
    peers,       \* per instance: self.peers, name -> [known, ip, port, last_seen]
    inbox,       \* per instance: the datagrams queued on its listen socket
    fired,       \* the instances whose callback the last step invoked
    ev,          \* what the last step was: a beacon handled or a reaper pass
    beaconer,    \* per instance: the broadcaster thread is alive
    listener,    \* per instance: the listener thread is alive
    bsocks,      \* per instance: self._beacon_sockets holds open sockets
    joining,     \* per instance: stop() is at its joins
    multicast_ok,  \* per instance: the broadcaster's multicast_ok
    broadcast_ok,  \* per instance: the broadcaster's broadcast_ok
    missed,      \* per instance and peer: the peer's last beacon was lost on the way
    gapped       \* per instance and peer: two beacons in a row were lost at some time

\* The peer table of one instance as Python objects, and its readers
VARIABLES
    ptable,         \* self.peers: name -> the inner dict stored under it, 0 for no key
    cells,       \* the inner dicts, by object: [ip, port, last_seen]
    lck,         \* self.lock: "free" or the thread that holds it
    lname,       \* listener: the name of the beacon being handled under the lock
    rtodo,       \* reaper: the stale names still to delete in this pass
    result,      \* get_peers: the dict being built, name -> inner dict
    rleft,       \* get_peers: the names of self.peers.items() not copied yet
    view,        \* the caller: the dict get_peers returned last, name -> inner dict
    cb           \* self.callback, the thread inside it, and whether it waits for the lock

\* The construction of the server object
VARIABLES
    gsite,       \* the call site that constructed the server, "none" before
    gserver,     \* "none", "built", or the exception the constructor raised
    gcallback    \* the progress callback the server object holds, "none" for none

\* _recv_exact on a byte stream
VARIABLES
    xorig,       \* every byte the peer writes before it closes
    xrest,       \* the bytes of it not read yet
    xbase,       \* how many bytes had been read when _recv_exact was called
    xsize,       \* the size argument of the call
    xdata,       \* the local data of _recv_exact
    xpc,         \* "idle", "loop", "returned", "field" or "closed"
    xret         \* what _recv_exact returned: "none" before, "None" or "bytes"

\* One ServiceDiscovery object started and stopped repeatedly
VARIABLES
    inst,        \* running, _listen_sock, the sockets still open, the start() calls made
    loops        \* every thread start() created: its kind, its start() call, where it is

\* The paths a connection makes the server touch
VARIABLES
    wp,          \* the handler, the filename of its header, and where the handler is
    touched      \* the operations made on the file system: kind and resolved path

\* One file of a multi-file or directory send, on a disk where it can change
VARIABLES
    sf           \* the sender, the size declared, the length on disk, the bytes written

srv == <<spc, sproto, sname, ssize, sdigest, received, scount, sidx>>
cli == <<family, cpc, cproto, ccount, cfiles, cidx, coff, csent, cres>>
disk == <<dest, partial>>
net == <<c2s, s2c, cclosed, sclosed, pending>>
hist == <<dest0, partial0, got, cwrote, offsets, statuses, verdict, hashed, rlog,
          calls, fault, prev, tampered>>
\* The transfer over one connection.
xfer == <<disk, net, srv, cli, hist>>
\* The accept loop.
lvars == <<backlog, lpc, active, conns, ended>>
\* The retry loop of the sender.
rvars == <<rpc, rop, attempt, tried, slept>>
\* The sending loop under the pause signal.
pvars == <<pause_event, ppc, pkind, pfiles, pidx, psent, pfrom, pwrote, pgate>>
\* Discovery.
dthreads == <<beaconer, listener, bsocks, joining>>
dsend == <<multicast_ok, broadcast_ok>>
dloss == <<missed, gapped>>
dvars == <<now, running, started, listening, nextBeacon, reaper, nextReap, peers, inbox,
           fired, ev, dthreads, dsend, dloss>>
\* The peer table as objects.
tvars == <<ptable, cells, lck, lname, rtodo, result, rleft, view, cb>>
\* The server object.
gvars == <<gsite, gserver, gcallback>>
\* _recv_exact.
xvars == <<xorig, xrest, xbase, xsize, xdata, xpc, xret>>
\* One discovery object across restarts.
zvars == <<inst, loops>>
\* The paths of one connection.
wvars == <<wp, touched>>
vars == <<xfer, lvars, rvars, pvars, dvars, tvars, gvars, xvars, zvars, wvars, sf>>

\* Everything but the transfer, but the accept loop, but the retry loop, but the
\* paused sending loop.
notXfer == <<lvars, rvars, pvars, dvars, tvars, gvars, xvars, zvars, wvars, sf>>
notLoop == <<xfer, rvars, pvars, dvars, tvars, gvars, xvars, zvars, wvars, sf>>
notRetry == <<xfer, lvars, pvars, dvars, tvars, gvars, xvars, zvars, wvars, sf>>
notPause == <<xfer, lvars, rvars, dvars, tvars, gvars, xvars, zvars, wvars, sf>>
notDisc == <<xfer, lvars, rvars, pvars, tvars, gvars, xvars, zvars, wvars, sf>>
notTable == <<xfer, lvars, rvars, pvars, gvars, xvars, zvars, wvars, sf>>
notRun == <<xfer, rvars, pvars, dvars, tvars, xvars, zvars, wvars, sf>>
notRecv == <<xfer, lvars, rvars, pvars, dvars, tvars, gvars, zvars, wvars, sf>>
notRestart == <<xfer, lvars, rvars, pvars, dvars, tvars, gvars, xvars, wvars, sf>>
notFile == <<xfer, lvars, rvars, pvars, dvars, tvars, gvars, xvars, zvars, wvars>>
notPath == <<xfer, lvars, rvars, pvars, dvars, tvars, gvars, xvars, zvars, sf>>

\* Most connections made in one run of the accept loop.
MaxConns == 4
ConnIds == 1..MaxConns

LoopInit ==
    /\ backlog = <<>> /\ lpc = "accept" /\ active = {}
    /\ conns = [c \in ConnIds |-> "none"]
    /\ ended = [c \in ConnIds |-> "none"]

\* The machine names of the instances.
Nodes == {"A", "B"}

NoPeer == [known |-> FALSE, ip |-> "", port |-> 0, last_seen |-> 0]
NoEvent == [kind |-> "none", node |-> "", name |-> "", had |-> FALSE]

\* ServiceDiscovery.__init__, lines 31-48, for each instance.
DiscInit ==
    /\ now = 0
    /\ running = [n \in Nodes |-> FALSE]
    /\ started = [n \in Nodes |-> -1]
    /\ listening = [n \in Nodes |-> FALSE]
    /\ nextBeacon = [n \in Nodes |-> 0]
    /\ reaper = [n \in Nodes |-> FALSE]
    /\ nextReap = [n \in Nodes |-> 0]
    /\ peers = [n \in Nodes |-> [m \in Nodes |-> NoPeer]]
    /\ inbox = [n \in Nodes |-> <<>>]
    /\ fired = {}
    /\ ev = NoEvent
    /\ beaconer = [n \in Nodes |-> FALSE]
    /\ listener = [n \in Nodes |-> FALSE]
    /\ bsocks = [n \in Nodes |-> FALSE]
    /\ joining = [n \in Nodes |-> FALSE]
    /\ multicast_ok = [n \in Nodes |-> FALSE]
    /\ broadcast_ok = [n \in Nodes |-> FALSE]
    /\ missed = [n \in Nodes |-> [m \in Nodes |-> FALSE]]
    /\ gapped = [n \in Nodes |-> [m \in Nodes |-> FALSE]]

\* The streams a peer can write before it closes: up to MaxStream bytes.
MaxStream == 3
Streams == UNION {[1..n -> {0, 1}] : n \in 0..MaxStream}

\* No call of _recv_exact is under way.
RecvInit ==
    /\ xorig = <<>> /\ xrest = <<>> /\ xbase = 0 /\ xsize = 0 /\ xdata = <<>>
    /\ xpc = "idle" /\ xret = "none"

\* ServiceDiscovery.__init__, lines 36 to 48: not running, no thread, no socket.
RestartInit ==
    /\ inst = [running |-> FALSE, listen_sock |-> 0, lopen |-> {}, bopen |-> {},
               starts |-> 0]
    /\ loops = {}

\* No header has been read, and nothing on disk was touched.
NoName == [abs |-> FALSE, parts |-> <<>>]
PathInit ==
    /\ wp = [handler |-> "none", name |-> NoName, pc |-> "idle"]
    /\ touched = {}

\* No file of a multi-file send is under way.
FileInit ==
    sf = [sender |-> "none", filesize |-> 0, length |-> 0, sent |-> 0, changed |-> FALSE,
          pc |-> "idle"]

\* No server object has been constructed.
RunInit == gsite = "none" /\ gserver = "none" /\ gcallback = "none"

\* The names peers announce.
PeerSeq == <<"p", "q">>
PeerNames == {PeerSeq[i] : i \in DOMAIN PeerSeq}
NoDict == [k \in PeerNames |-> 0]

\* No callback was given, and no thread is inside one.
NoCallback == [fn |-> "none", thread |-> "none", blocked |-> FALSE]

\* ServiceDiscovery.__init__, lines 33, 37 and 44: the callback, an empty table,
\* a free lock.
TableInit ==
    /\ ptable = NoDict
    /\ cells = <<>>
    /\ lck = "free"
    /\ lname = ""
    /\ rtodo = {}
    /\ result = NoDict
    /\ rleft = {}
    /\ view = NoDict
    /\ cb = NoCallback

\* file_transfer_gui.py line 178: the event starts set (not paused).
PauseInit ==
    /\ pause_event = TRUE /\ ppc = "idle" /\ pkind = "none" /\ pfiles = <<>>
    /\ pidx = 0 /\ psent = 0 /\ pfrom = 0 /\ pwrote = <<>> /\ pgate = 0

RetryInit ==
    /\ rpc = "idle" /\ rop = "none" /\ attempt = 0 /\ tried = <<>> /\ slept = <<>>

NoPrev == [kind |-> "none", name |-> "", size |-> 0, k |-> 0]

InitBut ==
    /\ dest = [n \in Names |-> NoFile]
    /\ partial = [n \in Names |-> NoFile]
    /\ c2s = <<>> /\ s2c = <<>>
    /\ cclosed = TRUE /\ sclosed = TRUE /\ pending = FALSE
    /\ spc = "accept" /\ sproto = 0 /\ sname = "" /\ ssize = 0 /\ sdigest = 0
    /\ received = 0 /\ scount = 0 /\ sidx = 0
    /\ cpc = "idle" /\ cproto = 0 /\ ccount = 0 /\ cfiles = <<>> /\ cidx = 0 /\ coff = 0
    /\ csent = 0 /\ cres = "none"
    /\ dest0 = dest /\ partial0 = partial
    /\ got = <<>> /\ cwrote = <<>> /\ offsets = <<>> /\ statuses = <<>>
    /\ verdict = "none" /\ hashed = NoFile /\ rlog = <<>> /\ calls = 0
    /\ fault = "none"
    /\ prev = NoPrev /\ tampered = FALSE
    /\ LoopInit /\ RetryInit /\ PauseInit /\ DiscInit /\ TableInit /\ RunInit /\ RecvInit
    /\ RestartInit /\ PathInit /\ FileInit

\* A receiver whose senders use send_single_file: the resumable protocol.
Init == InitBut /\ family = "resumable"

\* A receiver whose senders use the protocols without resume.
InitPlain == InitBut /\ family = "plain"

\* Either.
InitAll == InitBut /\ family \in {"resumable", "plain"}

(***************************************************************************)
(* The sender.                                                             *)
(***************************************************************************)

\* The chunk size the client announces (preferred_chunk); the receiver only logs it.
PREFERRED_CHUNK == 65536

SrcFile(name, data) == [name |-> name, data |-> data]
CurFile == cfiles[cidx]

\* What the sender has written of the current file, counted from byte 0.
SenderPos == coff + Len(cwrote)

\* The header of one file: filename (with its length) and size.
FileHeader(f) == <<Tok("name", f.name), Tok("size", Len(f.data))>>

\* The header written by _send_single_file_internal, one token per sendall.
ResumableHeader(f) ==
    << Tok("magic", MAGIC_RESUMABLE), Tok("name", f.name), Tok("size", Len(f.data)),
       Tok("chunk", PREFERRED_CHUNK), Tok("sha", Sha256(f.data)) >>

\* What the next connection remembers of this one: that it was a resumable transfer
\* cut off after the sender had written k bytes in all, or one that ended with a
\* digest mismatch, or one that the receiver acknowledged with OK, or that the
\* partial file was changed after it.
Summary ==
    IF tampered THEN [NoPrev EXCEPT !.kind = "tampered"]
    ELSE IF cproto = MAGIC_RESUMABLE /\ cfiles # <<>>
    THEN IF cres = "killed" /\ 0 < SenderPos /\ SenderPos < Len(cfiles[1].data)
         THEN [kind |-> "cut", name |-> cfiles[1].name, size |-> Len(cfiles[1].data),
               k |-> SenderPos]
         ELSE IF verdict = "mismatch"
         THEN [kind |-> "mismatch", name |-> cfiles[1].name,
               size |-> Len(cfiles[1].data), k |-> 0]
         ELSE IF statuses = <<"OK">>
         THEN [kind |-> "done", name |-> cfiles[1].name,
               size |-> Len(cfiles[1].data), k |-> 0]
         ELSE NoPrev
    ELSE NoPrev

\* No connection is open on either side.
Quiet == cpc = "idle" /\ spc = "accept" /\ ~pending /\ cclosed /\ sclosed

\* socket.connect and the header sendalls, with the history of the connection
\* started afresh.
Connect(proto, written) ==
    /\ Quiet
    /\ UNCHANGED family
    /\ pending' = TRUE /\ sclosed' = FALSE
    /\ c2s' = written /\ s2c' = <<>>
    /\ cproto' = proto /\ coff' = 0 /\ csent' = 0
    /\ dest0' = dest /\ partial0' = partial
    /\ got' = <<>> /\ cwrote' = <<>> /\ offsets' = <<>> /\ statuses' = <<>>
    /\ verdict' = "none" /\ hashed' = NoFile /\ rlog' = <<>> /\ calls' = 0
    /\ fault' = "none"
    /\ prev' = Summary /\ tampered' = FALSE
    /\ UNCHANGED <<disk, srv, notXfer>>

\* The sender goes on after the header.
Proceed(count, files, after) ==
    /\ cclosed' = FALSE /\ cpc' = after /\ cres' = "none"
    /\ ccount' = count /\ cfiles' = files /\ cidx' = Len(files)

\* The sender is cut off inside the header and its socket closes.
Truncated ==
    /\ cclosed' = TRUE /\ cpc' = "idle" /\ cres' = "killed"
    /\ ccount' = 0 /\ cfiles' = <<>> /\ cidx' = 0

\* send_single_file: lines 43-83 of transfer_client.py.
ConnectResumable ==
    \E name \in ResumableNames, data \in Contents :
        /\ family = "resumable"
        /\ Connect(MAGIC_RESUMABLE, ResumableHeader(SrcFile(name, data)))
        /\ Proceed(1, <<SrcFile(name, data)>>, "wait_offset")

\* The same, cut off after hlen of the five header fields.
ConnectResumableTruncated ==
    \E name \in ResumableNames, size \in 0..MaxSize, hlen \in 0..4 :
        /\ family = "resumable"
        /\ Connect(MAGIC_RESUMABLE,
                   SubSeq(<<Tok("magic", MAGIC_RESUMABLE), Tok("name", name),
                            Tok("size", size), Tok("chunk", PREFERRED_CHUNK)>>, 1, hlen))
        /\ Truncated

\* The files a non-resumable sender holds: the bytes follow from the name and the
\* length.
PatternFiles == {SrcFile(name, Pattern(name, n)) : name \in Names, n \in 0..MaxPlainSize}

\* A sender of the single-file protocol: magic, filename, size.
SingleHeader(f) == <<Tok("magic", MAGIC_SINGLE)>> \o FileHeader(f)

ConnectSingle ==
    \E f \in PatternFiles :
        /\ family = "plain"
        /\ \/ /\ Connect(MAGIC_SINGLE, SingleHeader(f))
              /\ Proceed(1, <<f>>, IF Len(f.data) > 0 THEN "send" ELSE "wait_ack")
           \/ /\ \E hlen \in 1..2 : Connect(MAGIC_SINGLE, SubSeq(SingleHeader(f), 1, hlen))
              /\ Truncated

\* send_multiple_files: lines 178-198 of transfer_client.py, magic and file count.
\* The files themselves are drawn as their headers are written.
ConnectMulti ==
    /\ family = "plain"
    /\ \/ \E count \in 0..MaxFiles :
            /\ Connect(MAGIC_MULTI, <<Tok("magic", MAGIC_MULTI), Tok("count", count)>>)
            /\ Proceed(count, <<>>, IF count > 0 THEN "hdr" ELSE "wait_ack")
       \/ /\ Connect(MAGIC_MULTI, <<Tok("magic", MAGIC_MULTI)>>)
          /\ Truncated

\* A connection that opens with bytes that are no known magic.
ConnectUnknown ==
    /\ Connect(MAGIC_UNKNOWN, <<Tok("magic", MAGIC_UNKNOWN)>>)
    /\ Proceed(0, <<>>, "wait_ack")

\* The loop position after `sent` bytes: while sent < filesize.
SendPos(sent, size) == IF sent < size THEN "send" ELSE "wait_ack"

\* Lines 85-94: read the 8-byte offset, seek to it.
ClientRecvOffset ==
    /\ cpc = "wait_offset"
    /\ \/ /\ s2c # <<>>
          /\ coff' = s2c[1].v /\ csent' = s2c[1].v
          /\ s2c' = Tail(s2c)
          /\ cpc' = SendPos(s2c[1].v, Len(CurFile.data))
          /\ UNCHANGED <<cclosed, cres>>
       \/ /\ s2c = <<>> /\ sclosed
          /\ cpc' = "idle" /\ cres' = "error" /\ cclosed' = TRUE
          /\ UNCHANGED <<coff, csent, s2c>>
    /\ UNCHANGED <<disk, srv, hist, c2s, sclosed, pending, family, cproto, ccount, cfiles,
                   cidx>>
    /\ UNCHANGED notXfer

\* f.read(to_read) at position `sent`.
ReadChunk(data, sent) ==
    SubSeq(data, sent + 1, Min(Len(data), sent + Min(BUFFER_SIZE, Len(data) - sent)))

\* Where the sender goes once the current file is sent: the next file of a
\* multi-file send, else the acknowledgment.
AfterFile(n) == IF n < ccount THEN "hdr" ELSE "wait_ack"

\* One turn of the sending loop: transfer_client.py lines 95-102 (resumable) and
\* 217-224 (multi-file); the file holds the filesize bytes it was declared with.
ClientSendChunk ==
    /\ cpc = "send"
    /\ LET data == ReadChunk(CurFile.data, csent) IN
       /\ c2s' = c2s \o ByteToks(data)
       /\ cwrote' = cwrote \o data
       /\ csent' = csent + Len(data)
       /\ cpc' = IF csent + Len(data) < Len(CurFile.data) THEN "send" ELSE AfterFile(cidx)
    /\ UNCHANGED <<disk, srv, s2c, cclosed, sclosed, pending, family, cproto, ccount,
                   cfiles, cidx, coff, cres, dest0, partial0, got, offsets, statuses,
                   verdict, hashed, rlog, calls, fault, prev, tampered>>
    /\ UNCHANGED notXfer

\* Lines 200-215 of _send_multiple_files_internal: the header of the next file.
ClientSendFileHeader ==
    /\ cpc = "hdr"
    /\ \E f \in PatternFiles :
         /\ c2s' = c2s \o FileHeader(f)
         /\ cfiles' = Append(cfiles, f)
         /\ cidx' = cidx + 1
         /\ cpc' = IF Len(f.data) > 0 THEN "send" ELSE AfterFile(cidx + 1)
    /\ csent' = 0
    /\ UNCHANGED <<disk, srv, hist, s2c, cclosed, sclosed, pending, family, cproto,
                   ccount, coff, cres>>
    /\ UNCHANGED notXfer

\* Lines 119-125: the 2-byte acknowledgment, then the socket closes.
ClientRecvAck ==
    /\ cpc = "wait_ack"
    /\ \/ /\ s2c # <<>>
          /\ cres' = IF s2c[1].v = "OK" THEN "ok" ELSE "error"
          /\ s2c' = Tail(s2c)
       \/ /\ s2c = <<>> /\ sclosed
          /\ cres' = "error"
          /\ UNCHANGED s2c
    /\ cpc' = "idle" /\ cclosed' = TRUE
    /\ UNCHANGED <<disk, srv, hist, c2s, sclosed, pending, family, cproto, ccount,
                   cfiles, cidx, coff, csent>>
    /\ UNCHANGED notXfer

\* What a sender that is cut off has still written: a proper prefix of the chunk
\* (or of the file header) it was writing.
CutToks ==
    CASE cpc = "send" ->
           {ByteToks(SubSeq(ReadChunk(CurFile.data, csent), 1, j)) :
                j \in 0..(Len(ReadChunk(CurFile.data, csent)) - 1)}
      [] cpc = "hdr" -> {<<>>} \cup {<<Tok("name", name)>> : name \in Names}
      [] OTHER -> {<<>>}

\* The sender is cut off (test_resume.py's partial_send, a killed process) and its
\* socket closes.
ClientCut ==
    /\ cpc \in {"wait_offset", "hdr", "send", "wait_ack"}
    /\ \E toks \in CutToks :
         /\ c2s' = c2s \o toks
         /\ cwrote' = cwrote \o BytesOf(toks, LeadingBytes(toks))
    /\ cpc' = "idle" /\ cres' = "killed" /\ cclosed' = TRUE
    /\ UNCHANGED <<disk, srv, s2c, sclosed, pending, family, cproto, ccount, cfiles,
                   cidx, coff, csent, dest0, partial0, got, offsets, statuses, verdict, hashed,
                   rlog, calls, fault, prev, tampered>>
    /\ UNCHANGED notXfer

(***************************************************************************)
(* TransferServer.                                                         *)
(***************************************************************************)

\* _recv_exact on a header field: it returns once the field (here, n fields) has
\* arrived or the stream has ended.
RecvReady(n) == Len(c2s) >= n \/ cclosed

\* A start that returns once _receive_files has: the connection is closed and
\* nothing is accepted any more.
ServerStops ==
    /\ spc' = "stopped" /\ sclosed' = TRUE
    /\ sproto' = 0 /\ sname' = "" /\ ssize' = 0 /\ sdigest' = 0
    /\ received' = 0 /\ scount' = 0 /\ sidx' = 0

\* _receive_files returns: the finally clause closes conn, start loops to accept.
ServerReturn ==
    /\ spc' = "accept" /\ sclosed' = TRUE
    /\ sproto' = 0 /\ sname' = "" /\ ssize' = 0 /\ sdigest' = 0
    /\ received' = 0 /\ scount' = 0 /\ sidx' = 0

\* start: lines 31-35.
Accept ==
    /\ spc = "accept" /\ pending
    /\ pending' = FALSE /\ spc' = "magic"
    /\ UNCHANGED <<disk, cli, hist, c2s, s2c, cclosed, sclosed, sproto, sname, ssize,
                   sdigest, received, scount, sidx>>
    /\ UNCHANGED notXfer

\* The handler a magic value selects (lines 55-69); "return" for any other value.
Dispatch(magic) ==
    CASE magic = MAGIC_SINGLE -> "s_hdr"
      [] magic = MAGIC_MULTI -> "m_count"
      [] magic = MAGIC_RESUMABLE -> "r_hdr"
      [] OTHER -> "return"

\* _receive_files: lines 42-75, up to the call of the protocol's handler.
receive_files ==
    /\ spc = "magic"
    /\ RecvReady(1)
    /\ IF c2s = <<>> \/ Dispatch(c2s[1].v) = "return"
       THEN /\ ServerReturn
            /\ c2s' = <<>>
       ELSE /\ spc' = Dispatch(c2s[1].v)
            /\ sproto' = c2s[1].v
            /\ c2s' = Tail(c2s)
            /\ UNCHANGED <<sclosed, sname, ssize, sdigest, received, scount, sidx>>
    /\ UNCHANGED <<disk, cli, hist, s2c, cclosed, pending>>
    /\ UNCHANGED notXfer

\* A receiver that always answers offset 0.
ResumeOffsetZero(pf, filesize) == 0

\* A receiver that answers the length of the partial file whatever the size.
ResumeOffsetKeepingLong(pf, filesize) == IF pf.exists THEN Len(pf.data) ELSE 0

\* Lines 128-138: the offset the receiver answers with.
ResumeOffset(pf, filesize) ==
    IF pf.exists /\ Len(pf.data) <= filesize THEN Len(pf.data) ELSE 0

\* A receiver that opens the partial file with 'wb'.
OpenPartialTruncating(pf, filesize) == File(<<>>)

\* Lines 130-134 and 148: a partial file longer than filesize is unlinked, and
\* open(partial_path, 'ab') creates the file when there is none.
OpenPartial(pf, filesize) ==
    IF pf.exists /\ Len(pf.data) <= filesize THEN pf ELSE File(<<>>)

\* How unlink and replace of lines 184-186 can end.
RenameOutcomes(d) ==
    IF d.exists THEN {"none", "unlink", "replace"} ELSE {"none", "replace"}

\* A receiver that replies OK on a match and leaves the partial file where it is.
VerifyWithoutRename(d, pf, digest, fl) ==
    IF Sha256(pf.data) = digest
    THEN [dest |-> d, partial |-> pf, status |-> "OK", verdict |-> "match"]
    ELSE [dest |-> d, partial |-> pf, status |-> "ER", verdict |-> "mismatch"]

\* A receiver that renames the partial file before it looks at the digest.
VerifyAfterRename(d, pf, digest, fl) ==
    IF Sha256(pf.data) = digest
    THEN [dest |-> File(pf.data), partial |-> NoFile, status |-> "OK",
          verdict |-> "match"]
    ELSE [dest |-> File(pf.data), partial |-> NoFile, status |-> "ER",
          verdict |-> "mismatch"]

\* A receiver that reports an error when the destination already exists.
VerifyRefusingOverwrite(d, pf, digest, fl) ==
    IF Sha256(pf.data) = digest
    THEN IF d.exists
         THEN [dest |-> d, partial |-> pf, status |-> "ER", verdict |-> "match"]
         ELSE [dest |-> File(pf.data), partial |-> NoFile, status |-> "OK",
               verdict |-> "match"]
    ELSE [dest |-> d, partial |-> pf, status |-> "ER", verdict |-> "mismatch"]

\* Lines 171-199: hash the partial file, compare, rename, reply.  d is the
\* destination file, pf the partial file, fl the way the rename ends.
VerifyAndReply(d, pf, digest, fl) ==
    IF Sha256(pf.data) = digest
    THEN CASE fl = "none" ->
                [dest |-> File(pf.data), partial |-> NoFile, status |-> "OK",
                 verdict |-> "match"]
           [] fl = "unlink" ->
                [dest |-> d, partial |-> pf, status |-> "ER", verdict |-> "match"]
           [] OTHER ->
                [dest |-> NoFile, partial |-> pf, status |-> "ER", verdict |-> "match"]
    ELSE [dest |-> d, partial |-> pf, status |-> "ER", verdict |-> "mismatch"]

\* A receiver that, when the rename fails, sends ER and goes on to send OK.
ResumableFinishFallingThrough(name, pf, digest) ==
    \E fl \in RenameOutcomes(dest[name]) :
        LET o == VerifyAndReply(dest[name], pf, digest, fl) IN
        /\ dest' = [dest EXCEPT ![name] = o.dest]
        /\ partial' = [partial EXCEPT ![name] = o.partial]
        /\ statuses' = IF o.verdict = "match" /\ fl # "none"
                       THEN statuses \o <<"ER", "OK">>
                       ELSE Append(statuses, o.status)
        /\ verdict' = o.verdict
        /\ hashed' = pf
        /\ fault' = IF o.verdict = "match" THEN fl ELSE "none"
        /\ ServerReturn

\* The end of _receive_files_resumable_single once received >= filesize.
ResumableFinish(name, pf, digest) ==
    \E fl \in RenameOutcomes(dest[name]) :
        LET o == VerifyAndReply(dest[name], pf, digest, fl) IN
        /\ dest' = [dest EXCEPT ![name] = o.dest]
        /\ partial' = [partial EXCEPT ![name] = o.partial]
        /\ statuses' = Append(statuses, o.status)
        /\ verdict' = o.verdict
        /\ hashed' = pf
        /\ fault' = IF o.verdict = "match" THEN fl ELSE "none"
        /\ ServerReturn

\* _receive_files_resumable_single: lines 90-148, the header, the offset reply
\* and the open of the partial file.
receive_files_resumable_single ==
    /\ spc = "r_hdr"
    /\ RecvReady(4)
    /\ IF Len(c2s) < 4 \/ c2s[1].v = ""
       THEN /\ ServerReturn
            /\ c2s' = <<>>
            /\ UNCHANGED <<disk, s2c, offsets, statuses, verdict, hashed, fault, rlog>>
       ELSE LET name == c2s[1].v
                filesize == c2s[2].v
                digest == c2s[4].v
                offset == ResumeOffset(partial[name], filesize)
                pf == OpenPartial(partial[name], filesize)
            IN  /\ c2s' = Drop(c2s, 4)
                /\ offsets' = Append(offsets, offset)
                /\ rlog' = Append(rlog, [name |-> name, size |-> filesize, got |-> offset])
                /\ IF offset < filesize
                   THEN /\ s2c' = Append(s2c, Tok("offset", offset))
                        /\ partial' = [partial EXCEPT ![name] = pf]
                        /\ spc' = "r_recv"
                        /\ sname' = name /\ ssize' = filesize /\ sdigest' = digest
                        /\ received' = offset
                        /\ UNCHANGED <<dest, sclosed, sproto, scount, sidx, statuses,
                                       verdict, hashed, fault>>
                   ELSE /\ ResumableFinish(name, pf, digest)
                        /\ s2c' = s2c \o <<Tok("offset", offset),
                                           Tok("status", statuses'[Len(statuses')])>>
    /\ UNCHANGED <<cli, cclosed, pending, dest0, partial0, got, cwrote, calls, prev,
                   tampered>>
    /\ UNCHANGED notXfer

\* The bytes one conn.recv(to_read) can return: at least one, at most to_read, never
\* more than have arrived.
RecvSizes(filesize, rcvd) ==
    1..Min(Min(BUFFER_SIZE, filesize - rcvd), LeadingBytes(c2s))

BumpLog(log, n) == [log EXCEPT ![Len(log)].got = @ + n]

\* _receive_files_resumable_single: lines 149-199, one turn of the receive loop and,
\* when it ends the loop, what follows it.
receive_resumable_chunk ==
    /\ spc = "r_recv"
    /\ c2s # <<>> \/ cclosed
    /\ IF c2s = <<>>
       THEN /\ ServerReturn
            /\ UNCHANGED <<disk, c2s, s2c, got, statuses, verdict, hashed, fault, rlog>>
       ELSE \E n \in RecvSizes(ssize, received) :
            LET data == BytesOf(c2s, n)
                pf == File(partial[sname].data \o data)
            IN  /\ c2s' = Drop(c2s, n)
                /\ got' = got \o data
                /\ rlog' = BumpLog(rlog, n)
                /\ IF received + n < ssize
                   THEN /\ partial' = [partial EXCEPT ![sname] = pf]
                        /\ received' = received + n
                        /\ UNCHANGED <<dest, s2c, sclosed, spc, sproto, sname, ssize,
                                       sdigest, scount, sidx, statuses, verdict, hashed,
                                       fault>>
                   ELSE /\ ResumableFinish(sname, pf, sdigest)
                        /\ s2c' = Append(s2c, Tok("status", statuses'[Len(statuses')]))
    /\ UNCHANGED <<cli, cclosed, pending, dest0, partial0, cwrote, offsets, calls, prev,
                   tampered>>
    /\ UNCHANGED notXfer

\* conn.sendall(b'OK') at the end of a non-resumable handler, and the return.
ReplyOK ==
    /\ statuses' = Append(statuses, "OK")
    /\ s2c' = Append(s2c, Tok("status", "OK"))
    /\ ServerReturn

\* open(output_path, 'wb'): the destination is created, or emptied.
OpenForWrite(d, name) == [d EXCEPT ![name] = File(<<>>)]

\* _receive_files_single: lines 232-264, the header and the open of the destination.
receive_files_single ==
    /\ spc = "s_hdr"
    /\ RecvReady(2)
    /\ IF Len(c2s) < 2 \/ c2s[1].v = ""
       THEN /\ ServerReturn
            /\ c2s' = <<>>
            /\ UNCHANGED <<dest, s2c, statuses, rlog>>
       ELSE /\ c2s' = Drop(c2s, 2)
            /\ dest' = OpenForWrite(dest, c2s[1].v)
            /\ rlog' = Append(rlog, [name |-> c2s[1].v, size |-> c2s[2].v, got |-> 0])
            /\ IF c2s[2].v > 0
               THEN /\ spc' = "s_recv"
                    /\ sname' = c2s[1].v /\ ssize' = c2s[2].v /\ received' = 0
                    /\ UNCHANGED <<s2c, sclosed, sproto, sdigest, scount, sidx, statuses>>
               ELSE ReplyOK
    /\ UNCHANGED <<partial, cli, cclosed, pending, dest0, partial0, got, cwrote, offsets,
                   verdict, hashed, calls, fault, prev, tampered>>
    /\ UNCHANGED notXfer

\* _receive_files_single: lines 265-283, one turn of the receive loop; the
\* acknowledgment follows the loop however it ends.
receive_single_chunk ==
    /\ spc = "s_recv"
    /\ c2s # <<>> \/ cclosed
    /\ IF c2s = <<>>
       THEN /\ ReplyOK
            /\ UNCHANGED <<dest, c2s, got, rlog>>
       ELSE \E n \in RecvSizes(ssize, received) :
            /\ c2s' = Drop(c2s, n)
            /\ got' = got \o BytesOf(c2s, n)
            /\ rlog' = BumpLog(rlog, n)
            /\ dest' = [dest EXCEPT ![sname].data = @ \o BytesOf(c2s, n)]
            /\ IF received + n < ssize
               THEN /\ received' = received + n
                    /\ UNCHANGED <<s2c, sclosed, spc, sproto, sname, ssize, sdigest,
                                   scount, sidx, statuses>>
               ELSE ReplyOK
    /\ UNCHANGED <<partial, cli, cclosed, pending, dest0, partial0, cwrote, offsets,
                   verdict, hashed, calls, fault, prev, tampered>>
    /\ UNCHANGED notXfer

\* _receive_files_multi: lines 207-215, the file count; and lines 221-224 when the
\* count is 0.
receive_files_multi ==
    /\ spc = "m_count"
    /\ RecvReady(1)
    /\ IF c2s = <<>>
       THEN /\ ServerReturn
            /\ UNCHANGED <<c2s, s2c, statuses>>
       ELSE /\ c2s' = Tail(c2s)
            /\ IF c2s[1].v > 0
               THEN /\ spc' = "m_hdr" /\ scount' = c2s[1].v /\ sidx' = 0
                    /\ UNCHANGED <<s2c, sclosed, sproto, sname, ssize, sdigest, received,
                                   statuses>>
               ELSE ReplyOK
    /\ UNCHANGED <<disk, cli, cclosed, pending, dest0, partial0, got, cwrote, offsets,
                   verdict, hashed, rlog, calls, fault, prev, tampered>>
    /\ UNCHANGED notXfer

\* A loop that runs one time too few: range(file_count - 1).
NextFileOneShort ==
    IF sidx + 2 < scount
    THEN /\ spc' = "m_hdr" /\ sidx' = sidx + 1
         /\ sname' = "" /\ ssize' = 0 /\ received' = 0
         /\ UNCHANGED <<s2c, sclosed, sproto, sdigest, scount, statuses>>
    ELSE ReplyOK

\* The for loop of _receive_files_multi (lines 216-224) after one call of
\* _receive_single_file has returned: the next call, or the acknowledgment.
NextFile ==
    IF sidx + 1 < scount
    THEN /\ spc' = "m_hdr" /\ sidx' = sidx + 1
         /\ sname' = "" /\ ssize' = 0 /\ received' = 0
         /\ UNCHANGED <<s2c, sclosed, sproto, sdigest, scount, statuses>>
    ELSE ReplyOK

\* _receive_single_file: lines 300-330, the header of one file and the open of its
\* destination.
receive_single_file ==
    /\ spc = "m_hdr"
    /\ RecvReady(2)
    /\ calls' = calls + 1
    /\ IF Len(c2s) < 2
       THEN /\ c2s' = <<>>
            /\ NextFile
            /\ UNCHANGED <<dest, rlog>>
       ELSE /\ c2s' = Drop(c2s, 2)
            /\ dest' = OpenForWrite(dest, c2s[1].v)
            /\ rlog' = Append(rlog, [name |-> c2s[1].v, size |-> c2s[2].v, got |-> 0])
            /\ IF c2s[2].v > 0
               THEN /\ spc' = "m_recv"
                    /\ sname' = c2s[1].v /\ ssize' = c2s[2].v /\ received' = 0
                    /\ UNCHANGED <<s2c, sclosed, sproto, sdigest, scount, sidx, statuses>>
               ELSE NextFile
    /\ UNCHANGED <<partial, cli, cclosed, pending, dest0, partial0, got, cwrote, offsets,
                   verdict, hashed, fault, prev, tampered>>
    /\ UNCHANGED notXfer

\* _receive_single_file: lines 331-345, one turn of the receive loop.
receive_file_chunk ==
    /\ spc = "m_recv"
    /\ c2s # <<>> \/ cclosed
    /\ IF c2s = <<>>
       THEN /\ NextFile
            /\ UNCHANGED <<dest, c2s, got, rlog>>
       ELSE \E n \in RecvSizes(ssize, received) :
            /\ c2s' = Drop(c2s, n)
            /\ got' = got \o BytesOf(c2s, n)
            /\ rlog' = BumpLog(rlog, n)
            /\ dest' = [dest EXCEPT ![sname].data = @ \o BytesOf(c2s, n)]
            /\ IF received + n < ssize
               THEN /\ received' = received + n
                    /\ UNCHANGED <<s2c, sclosed, spc, sproto, sname, ssize, sdigest,
                                   scount, sidx, statuses>>
               ELSE NextFile
    /\ UNCHANGED <<partial, cli, cclosed, pending, dest0, partial0, cwrote, offsets,
                   verdict, hashed, calls, fault, prev, tampered>>
    /\ UNCHANGED notXfer

\* The partial file is changed between two connections: one byte is flipped.  What
\* is remembered of the last connection no longer describes the directory and is
\* dropped.
Tamper ==
    /\ Quiet
    /\ \E name \in Names :
         /\ partial[name].exists
         /\ \E i \in 1..Len(partial[name].data) :
              partial' = [partial EXCEPT ![name].data[i] = 1 - @]
    /\ tampered' = TRUE
    /\ c2s' = <<>> /\ s2c' = <<>>
    /\ cproto' = 0 /\ ccount' = 0 /\ cfiles' = <<>> /\ cidx' = 0 /\ coff' = 0
    /\ csent' = 0 /\ cres' = "none"
    /\ dest0' = dest /\ partial0' = partial'
    /\ got' = <<>> /\ cwrote' = <<>> /\ offsets' = <<>> /\ statuses' = <<>>
    /\ verdict' = "none" /\ hashed' = NoFile /\ rlog' = <<>> /\ calls' = 0
    /\ fault' = "none" /\ prev' = NoPrev
    /\ UNCHANGED <<dest, srv, cclosed, sclosed, pending, family, cpc>>
    /\ UNCHANGED notXfer

\* The resumable protocol alone.
Next ==
    \/ ConnectResumable
    \/ ConnectResumableTruncated
    \/ ConnectUnknown
    \/ ClientRecvOffset
    \/ ClientSendChunk
    \/ ClientRecvAck
    \/ ClientCut
    \/ Accept
    \/ receive_files
    \/ receive_files_resumable_single
    \/ receive_resumable_chunk
    \/ Tamper

Spec == Init /\ [][Next]_vars

\* The two protocols without resume.
NextPlain ==
    \/ ConnectSingle
    \/ ConnectMulti
    \/ ConnectUnknown
    \/ ClientSendFileHeader
    \/ ClientSendChunk
    \/ ClientRecvAck
    \/ ClientCut
    \/ Accept
    \/ receive_files
    \/ receive_files_single
    \/ receive_single_chunk
    \/ receive_files_multi
    \/ receive_single_file
    \/ receive_file_chunk

SpecPlain == InitPlain /\ [][NextPlain]_vars

\* The three protocols.
NextAll == Next \/ NextPlain

SpecAll == InitAll /\ [][NextAll]_vars

\* The steps of the server thread and the steps of a sender.
ServerStep ==
    \/ Accept \/ receive_files
    \/ receive_files_resumable_single \/ receive_resumable_chunk
    \/ receive_files_single \/ receive_single_chunk
    \/ receive_files_multi \/ receive_single_file \/ receive_file_chunk
SenderStep ==
    \/ ClientRecvOffset \/ ClientSendChunk \/ ClientSendFileHeader \/ ClientRecvAck
    \/ ClientCut

\* The resumable protocol, with a server thread that runs whenever it has something
\* to read or an end of stream to see, and senders that go on until they are done
\* or their socket closes.
SpecFair == Spec /\ WF_vars(ServerStep) /\ WF_vars(SenderStep)

(***************************************************************************)
(* The resumable protocol: properties.                                     *)
(***************************************************************************)

\* The connection is a resumable transfer whose whole header was written.
Resumable == cproto = MAGIC_RESUMABLE /\ cfiles # <<>>
Src == cfiles[1]

\* The handler of the connection has returned and conn is closed.
ServerDone == spc = "accept" /\ ~pending /\ sclosed

\* The sender ran to its end without being cut off.
SenderDone == cpc = "idle" /\ cres \in {"ok", "error"}

\* The connection before this one was a resumable transfer of the same filename and
\* size, cut off after the sender had written prev.k bytes, 0 < prev.k < size.
ResumeCase ==
    /\ Resumable
    /\ prev.kind = "cut" /\ prev.name = Src.name /\ prev.size = Len(Src.data)

\* C1: when a resumable transfer was cut off after the sender had written k bytes
\* (0 < k < size), the next resumable connection for the same filename and size gets
\* the offset reply k, the sender writes bytes k.. of the file and nothing else, and
\* once the receiver has replied OK the destination holds the bytes of the source
\* and the sender has written exactly bytes k..size-1.
C1_ResumeCorrectness ==
    ResumeCase =>
        /\ offsets \in {<<>>, <<prev.k>>}
        /\ (cpc \in {"send", "wait_ack"} => coff = prev.k)
        /\ cwrote = SubSeq(Src.data, prev.k + 1, prev.k + Len(cwrote))
        /\ (statuses # <<>> /\ statuses[1] = "OK" =>
                /\ dest[Src.name] = File(Src.data)
                /\ cwrote = SubSeq(Src.data, prev.k + 1, Len(Src.data)))

C1_Witness ==
    /\ ResumeCase
    /\ offsets = <<prev.k>> /\ statuses = <<"OK">> /\ cres = "ok"
    /\ Len(cwrote) = Len(Src.data) - prev.k

\* C2: a file sent over the resumable protocol by a sender that is not cut off, with
\* no partial file there before and no filesystem failure at the rename, ends with
\* the reply OK, the destination holding exactly the bytes of the file, and no
\* partial file left.
C2_RoundTrip ==
    (Resumable /\ SenderDone /\ ~partial0[Src.name].exists /\ fault = "none") =>
        /\ cres = "ok" /\ statuses = <<"OK">>
        /\ dest[Src.name] = File(Src.data)
        /\ ~partial[Src.name].exists

C2_Witness ==
    /\ Resumable /\ SenderDone /\ ~partial0[Src.name].exists /\ fault = "none"
    /\ Len(Src.data) = MaxSize /\ cres = "ok"
    /\ dest0[Src.name] # dest[Src.name]

\* C3: when the partial file holds size bytes that are not the bytes of the source,
\* the receiver replies ER, leaves the destination as it was and leaves the partial
\* file in place.
C3_TamperDetection ==
    (Resumable /\ hashed.exists /\ hashed.data # Src.data) =>
        /\ statuses = <<"ER">>
        /\ dest = dest0
        /\ partial[Src.name] = hashed

C3_Witness ==
    /\ Resumable /\ hashed.exists /\ hashed.data # Src.data
    /\ prev.kind = "tampered"
    /\ statuses = <<"ER">> /\ got # <<>>

\* C4: on a resumable connection the destination changes only once the digest of
\* the complete partial file has been found equal to the digest of the header; as
\* long as it has not, the destination is what it was when the connection was made.
C4_RenameOnlyAfterMatch ==
    cproto = MAGIC_RESUMABLE =>
        /\ (verdict # "match" => dest = dest0)
        /\ (dest # dest0 =>
                /\ verdict = "match"
                /\ Len(hashed.data) = Len(Src.data)
                /\ Sha256(hashed.data) = Sha256(Src.data))

C4_Witness ==
    /\ Resumable /\ verdict = "match"
    /\ dest0[Src.name].exists /\ dest[Src.name] # dest0[Src.name]

\* The bytes of the partial file the connection started from: none when there was
\* no partial file or it was longer than the declared size.
OldPartial ==
    IF partial0[Src.name].exists /\ Len(partial0[Src.name].data) <= Len(Src.data)
    THEN partial0[Src.name].data
    ELSE <<>>

\* C6: when the connection closes before size bytes are in the partial file, the
\* receiver sends no status, the destination is untouched, and the partial file
\* holds the old partial bytes followed by every byte written on this connection.
C6_EarlyCloseKeepsPartial ==
    (Resumable /\ ServerDone /\ offsets # <<>> /\ Len(OldPartial) + Len(got) < Len(Src.data)) =>
        /\ statuses = <<>>
        /\ dest = dest0
        /\ got = cwrote
        /\ partial[Src.name] = File(OldPartial \o got)

C6_Witness ==
    /\ Resumable /\ ServerDone /\ offsets # <<>>
    /\ Len(OldPartial) + Len(got) < Len(Src.data)
    /\ OldPartial # <<>> /\ got # <<>>

\* C5: after the receiver replied ER for a digest mismatch, the next resumable
\* attempt for the same filename and size, run to its end by a sender holding the
\* file it declares, ends with the reply OK and the destination equal to that file.
C5_RetryAfterMismatchCompletes ==
    (/\ Resumable /\ SenderDone /\ fault = "none"
     /\ prev.kind = "mismatch" /\ prev.name = Src.name /\ prev.size = Len(Src.data)) =>
        /\ statuses = <<"OK">>
        /\ dest[Src.name] = File(Src.data)

\* C11: when a resumable transfer of a file completed with OK and the same file
\* (same name, size and bytes) is sent again, the receiver finds no partial file,
\* replies offset 0, the sender writes every byte of the file, and (the rename
\* meeting no filesystem failure) the reply is OK, the destination is replaced by
\* the same bytes and no partial file is left.
SecondSend ==
    /\ Resumable
    /\ prev.kind = "done" /\ prev.name = Src.name /\ prev.size = Len(Src.data)
    /\ dest0[Src.name] = File(Src.data)

C11_SecondTransferIsFresh ==
    SecondSend =>
        /\ ~partial0[Src.name].exists
        /\ offsets \in {<<>>, <<0>>}
        /\ (cpc \in {"send", "wait_ack"} => coff = 0)
        /\ cwrote = SubSeq(Src.data, 1, Len(cwrote))
        /\ (SenderDone /\ fault = "none") =>
              /\ cwrote = Src.data /\ got = Src.data
              /\ statuses = <<"OK">> /\ cres = "ok"
              /\ dest[Src.name] = File(Src.data)
              /\ ~partial[Src.name].exists

C11_Witness ==
    /\ SecondSend /\ SenderDone /\ fault = "none"
    /\ Len(Src.data) = MaxSize /\ got = Src.data /\ statuses = <<"OK">>

(***************************************************************************)
(* The three protocols: properties.                                        *)
(***************************************************************************)

\* Every file whose header the receiver read on this connection arrived whole.
AllWhole == \A i \in DOMAIN rlog : rlog[i].got = rlog[i].size

\* C7: the receiver sends OK only if, for every file declared on the connection,
\* it received as many content bytes as the header declared.
C7_OkOnlyWhenComplete ==
    (statuses # <<>> /\ statuses[1] = "OK") => AllWhole

\* C8: in the single-file and multi-file protocols, a file whose stream ended before
\* its declared size leaves nothing at its destination path, and the connection is
\* not acknowledged with OK.
C8_NoTruncatedFileKept ==
    (cproto \in {MAGIC_SINGLE, MAGIC_MULTI} /\ ServerDone) =>
        \A i \in DOMAIN rlog :
            rlog[i].got < rlog[i].size =>
                /\ ~dest[rlog[i].name].exists
                /\ statuses # <<"OK">>

\* The last file of the connection received under a name.
LastOf(name) ==
    CHOOSE i \in DOMAIN rlog :
        /\ rlog[i].name = name
        /\ \A j \in DOMAIN rlog : rlog[j].name = name => j <= i

\* C9: on a multi-file connection the receiver runs the per-file receive at most
\* count times and exactly count times before it sends its one status; the files it
\* writes are the files sent, in the order sent, each holding the bytes of its
\* source; a file has its declared size before the header of the next one is read;
\* and the status is sent only once the stream has been consumed.
C9_MultiFileOrdering ==
    cproto = MAGIC_MULTI =>
        /\ calls <= ccount
        /\ Len(rlog) <= Len(cfiles)
        /\ \A i \in DOMAIN rlog :
              /\ rlog[i].name = cfiles[i].name
              /\ rlog[i].size = Len(cfiles[i].data)
              /\ i < Len(rlog) => rlog[i].got = rlog[i].size
        /\ \A name \in {rlog[i].name : i \in DOMAIN rlog} :
              dest[name] = File(SubSeq(cfiles[LastOf(name)].data, 1, rlog[LastOf(name)].got))
        /\ statuses # <<>> =>
              /\ statuses = <<"OK">>
              /\ calls = ccount
              /\ c2s = <<>>

C9_Witness ==
    /\ cproto = MAGIC_MULTI /\ ccount = MaxFiles /\ Len(rlog) = MaxFiles
    /\ cfiles[1].name # cfiles[2].name
    /\ \A i \in DOMAIN cfiles : Len(cfiles[i].data) = MaxPlainSize
    /\ AllWhole /\ statuses = <<"OK">> /\ cres = "ok"

\* All the bytes the connection declared were received.
AllReceived == rlog # <<>> /\ Len(rlog) = ccount /\ AllWhole

\* C10: the receiver sends at most one 2-byte status on a connection, and exactly
\* one on a connection on which it received every declared byte.
C10_OneStatus ==
    /\ Len(statuses) <= 1
    /\ (ServerDone /\ AllReceived) => Len(statuses) = 1

C10_Witness ==
    /\ ServerDone /\ AllReceived
    /\ statuses = <<"ER">> /\ verdict = "match" /\ fault = "unlink"

KnownMagic == {MAGIC_SINGLE, MAGIC_MULTI, MAGIC_RESUMABLE}

\* C13: whatever happens on a connection, its handler returns, the connection is
\* closed and the server is back at accept; and whatever came before, a connection
\* whose sender speaks a known protocol and runs to its end gets exactly one status,
\* which the sender reads.
C13_AcceptLoopSurvives ==
    /\ []((spc = "accept" /\ ~pending) => sclosed)
    /\ []((cproto \in KnownMagic /\ SenderDone) =>
            /\ Len(statuses) = 1
            /\ (cres = "ok" <=> statuses = <<"OK">>))
    /\ (pending \/ spc # "accept") ~> (spc = "accept" /\ ~pending /\ sclosed)

C13_Witness ==
    /\ prev.kind = "mismatch"
    /\ cproto \in KnownMagic /\ SenderDone /\ ServerDone
    /\ statuses = <<"OK">> /\ cres = "ok"

(***************************************************************************)
(* TransferServer.start: the accept loop, with clients that connect at     *)
(* any time.  _receive_files is one step here: how it ends is all the loop *)
(* sees of it.                                                             *)
(***************************************************************************)

\* server_socket.listen(1): the kernel holds one connection more than the backlog
\* for accept.
LISTEN_BACKLOG == 1

\* How a call of _receive_files can end.  Every handler catches Exception and
\* returns None, and the finally clause closes conn; conn.close() raising is
\* caught by the except clause of start.
Outcomes ==
    {"ok", "unknown_magic", "truncated_header", "early_close", "fs_error", "digest_mismatch",
     "reply_exception", "close_raised"}

\* A client connects: the connection waits in the backlog.
ClientConnects ==
    /\ \E c \in ConnIds :
         /\ conns[c] = "none"
         /\ \A d \in ConnIds : d < c => conns[d] # "none"
         /\ Len(backlog) <= LISTEN_BACKLOG
         /\ backlog' = Append(backlog, c)
         /\ conns' = [conns EXCEPT ![c] = "queued"]
    /\ UNCHANGED <<lpc, active, ended, notLoop>>

\* A server that hands each accepted connection to a thread of its own.
start_accept_threaded ==
    /\ backlog # <<>>
    /\ backlog' = Tail(backlog)
    /\ active' = active \cup {backlog[1]}
    /\ conns' = [conns EXCEPT ![backlog[1]] = "handled"]
    /\ lpc' = "accept"
    /\ UNCHANGED <<ended, notLoop>>

\* start, lines 31-35: accept returns the oldest waiting connection and
\* _receive_files is called with it.
start_accept ==
    /\ lpc = "accept"
    /\ backlog # <<>>
    /\ backlog' = Tail(backlog)
    /\ active' = active \cup {backlog[1]}
    /\ conns' = [conns EXCEPT ![backlog[1]] = "handled"]
    /\ lpc' = "handle"
    /\ UNCHANGED <<ended, notLoop>>

\* _receive_files ends (lines 70-75) and start goes round its loop (36-40).
start_handled ==
    /\ \E c \in active, how \in Outcomes :
         /\ active' = active \ {c}
         /\ conns' = [conns EXCEPT ![c] = "closed"]
         /\ ended' = [ended EXCEPT ![c] = how]
    /\ lpc' = "accept"
    /\ UNCHANGED <<backlog, notLoop>>

NextLoop == ClientConnects \/ start_accept \/ start_handled

InitLoop == InitBut /\ family = "none"

SpecLoop == InitLoop /\ [][NextLoop]_vars

\* C12: at most one accepted connection is being handled at any time; accept is
\* called only when none is, so a connection made meanwhile waits in the backlog.
C12_OneConnectionAtATime ==
    /\ Cardinality(active) <= 1
    /\ (lpc = "accept" <=> active = {})
    /\ \A c \in ConnIds : conns[c] = "handled" <=> c \in active

C12_Witness ==
    /\ active = {2} /\ backlog = <<3, 4>> /\ conns[1] = "closed"

(***************************************************************************)
(* TransferClient._retry_with_backoff around send_single_file,             *)
(* send_multiple_files and send_directory.  One attempt is one call of     *)
(* the operation: it returns, or raises an exception of some class.        *)
(***************************************************************************)

MAX_RETRIES == 3
RETRY_DELAY == 2

RECURSIVE Pow2(_)
Pow2(n) == IF n = 0 THEN 1 ELSE 2 * Pow2(n - 1)

\* Exceptions a socket call raises when the connection fails.
ConnectionErrors == {"ConnectionRefusedError", "BrokenPipeError", "ConnectionResetError"}

\* Exceptions the operations raise before they connect: the source file is gone
\* (lines 45-46, 180-182), the directory holds no file (277-278) or is no directory
\* any more (270-271).
LocalErrors(op) ==
    IF op = "directory" THEN {"FileNotFoundError", "NotADirectoryError"}
    ELSE {"FileNotFoundError"}

\* The subclasses of OSError among them.  socket.error is OSError.
OSErrors == ConnectionErrors \cup {"FileNotFoundError", "NotADirectoryError"}

\* except (socket.error, ConnectionError, BrokenPipeError), line 154.
Caught(exc) == exc \in OSErrors

\* An operation that takes any reply for an acknowledgment.
AckAnyReply(ack) == IF ack # "" THEN "return" ELSE "Exception"

\* ack = client_socket.recv(2); if ack != b'OK': raise Exception (lines 119-125,
\* 250-253, 341-344).  "" is the end of stream.
AckResult(ack) == IF ack = "OK" THEN "return" ELSE "Exception"

\* How one call of the operation can end: [exc, ack], exc = "return" when it returns,
\* ack = "none" when it never came to read the reply.
AttemptResults(op) ==
    {[exc |-> e, ack |-> "none"] : e \in LocalErrors(op) \cup ConnectionErrors}
    \cup (IF op = "single" THEN {[exc |-> "Exception", ack |-> "none"]} ELSE {})
    \cup {[exc |-> AckResult(a), ack |-> a] : a \in {"OK", "ER", ""}}

\* A delay that does not grow.
BackoffFlat(i) == RETRY_DELAY

\* wait_time = RETRY_DELAY * (2 ** (attempt - 1)), line 156.
Backoff(i) == RETRY_DELAY * Pow2(i - 1)

\* send_single_file, send_multiple_files or send_directory is called: the checks
\* before the retry loop pass and the loop starts with attempt 1.
CallSend ==
    /\ rpc = "idle"
    /\ \E op \in {"single", "multiple", "directory"} : rop' = op
    /\ rpc' = "attempt" /\ attempt' = 1
    /\ UNCHANGED <<tried, slept, notRetry>>

\* One turn of the for loop, lines 151-162: the operation is called; it returns, or
\* its exception is caught and the loop sleeps or re-raises, or it is not caught.
retry_with_backoff ==
    /\ rpc = "attempt"
    /\ \E r \in AttemptResults(rop) :
         /\ tried' = Append(tried, r)
         /\ IF r.exc = "return"
            THEN rpc' = "returned" /\ UNCHANGED slept
            ELSE IF Caught(r.exc) /\ attempt < MAX_RETRIES
            THEN rpc' = "sleep" /\ slept' = Append(slept, Backoff(attempt))
            ELSE rpc' = "raised" /\ UNCHANGED slept
    /\ UNCHANGED <<rop, attempt, notRetry>>

\* time.sleep returns and the loop goes to the next attempt.
retry_wake ==
    /\ rpc = "sleep"
    /\ rpc' = "attempt" /\ attempt' = attempt + 1
    /\ UNCHANGED <<rop, tried, slept, notRetry>>

NextRetry == CallSend \/ retry_with_backoff \/ retry_wake

InitRetry == InitBut /\ family = "none"

SpecRetry == InitRetry /\ [][NextRetry]_vars

\* Every attempt so far failed with a connection error.
AllConnectionErrors == \A i \in DOMAIN tried : tried[i].exc \in ConnectionErrors

\* C14: at most MAX_RETRIES attempts are made; the sleeps are 2 then 4 seconds;
\* while every attempt fails with a connection error, failed attempt i < MAX_RETRIES
\* is followed by sleep i and then attempt i + 1, and failed attempt MAX_RETRIES by
\* no sleep and the exception raised to the caller; an attempt that returns is the
\* last one.
C14_RetryPolicy ==
    /\ Len(tried) <= MAX_RETRIES
    /\ slept = SubSeq(<<2, 4>>, 1, Len(slept))
    /\ AllConnectionErrors =>
         /\ rpc = "attempt" => (attempt = Len(tried) + 1 /\ Len(slept) = Len(tried))
         /\ rpc = "sleep" => (Len(tried) < MAX_RETRIES /\ Len(slept) = Len(tried))
         /\ rpc = "raised" => (Len(tried) = MAX_RETRIES /\ slept = <<2, 4>>)
         /\ Len(tried) = MAX_RETRIES => rpc = "raised"
         /\ rpc # "returned"
    /\ \A i \in DOMAIN tried :
         tried[i].exc = "return" => (i = Len(tried) /\ rpc = "returned")

C14_Witness ==
    /\ rpc = "raised" /\ AllConnectionErrors
    /\ Len(tried) = MAX_RETRIES /\ slept = <<2, 4>>
    /\ tried[1].exc = "ConnectionRefusedError"

\* C15: an attempt that fails with something other than a connection error (a
\* local file-not-found, a non-OK reply) is the last attempt: the error is raised to
\* the caller, with no sleep and no attempt after it.
C15_OtherFailuresNotRetried ==
    \A i \in DOMAIN tried :
        tried[i].exc \notin ConnectionErrors \cup {"return"} =>
            /\ i = Len(tried)
            /\ Len(slept) < i
            /\ rpc = "raised"

\* C16: the operation returns only when the reply read on that attempt was OK; a
\* reply of ER, or the stream ending with no reply, raises an error to the caller and
\* no attempt follows it.
C16_SuccessOnlyOnOK ==
    /\ rpc = "returned" => tried[Len(tried)].ack = "OK"
    /\ \A i \in DOMAIN tried :
         tried[i].ack \in {"ER", ""} =>
            /\ tried[i].exc = "Exception"
            /\ i = Len(tried)
            /\ rpc = "raised"

C16_Witness ==
    /\ rop = "single" /\ rpc = "raised"
    /\ Len(tried) = 2 /\ tried[1].exc = "BrokenPipeError" /\ tried[2].ack = "ER"
    /\ slept = <<2>>

\* C31: _retry_with_backoff returns the result of the operation when an
\* attempt succeeds, and returns None, rather than raising, when all
\* MAX_RETRIES attempts failed with a connection error.
C31_ResultOrNone ==
    /\ rpc = "returned" => tried[Len(tried)].exc = "return"
    /\ (AllConnectionErrors /\ Len(tried) = MAX_RETRIES) => rpc = "returned"

\* The part of it about success: the loop returns only out of an attempt in
\* which the operation returned, and that attempt is the last.
C31_ResultOnSuccess ==
    /\ rpc = "returned" => tried[Len(tried)].exc = "return"
    /\ \A i \in DOMAIN tried : tried[i].exc = "return" => rpc = "returned"

(***************************************************************************)
(* The sending loops of TransferClient with a pause_event: every turn      *)
(* calls _wait_if_paused, then reads and writes one chunk.                 *)
(***************************************************************************)

\* Largest file of a paused send, and most files of one.
MaxPauseSize == 4
MaxPauseFiles == 2

\* The bytes of a file of the paused send.
PauseData(n) == Pattern("a", n)

\* The position of the loop for file i after `sent` bytes: the next turn of
\* `while sent < filesize`, the first file after it that has bytes, or the end.
RECURSIVE PauseNext(_, _, _)
PauseNext(files, i, sent) ==
    IF i > Len(files) THEN [pc |-> "done", idx |-> i, sent |-> 0]
    ELSE IF sent < files[i] THEN [pc |-> "check", idx |-> i, sent |-> sent]
    ELSE PauseNext(files, i + 1, 0)

\* A sending loop starts: _send_single_file_internal after the offset reply (lines
\* 89-95), or the loop over the files of a multi-file or directory send.
PauseStart ==
    /\ ppc = "idle"
    /\ \/ \E n \in 0..MaxPauseSize, off \in 0..MaxPauseSize :
            /\ off <= n
            /\ pkind' = "single" /\ pfiles' = <<n>> /\ pfrom' = off
            /\ LET nx == PauseNext(<<n>>, 1, off) IN
               ppc' = nx.pc /\ pidx' = nx.idx /\ psent' = nx.sent
       \/ \E k \in {"multiple", "directory"}, c \in 1..MaxPauseFiles :
          \E fs \in [1..c -> 0..MaxPauseSize] :
            /\ pkind' = k /\ pfiles' = fs /\ pfrom' = 0
            /\ LET nx == PauseNext(fs, 1, 0) IN
               ppc' = nx.pc /\ pidx' = nx.idx /\ psent' = nx.sent
    /\ pwrote' = <<>>
    /\ UNCHANGED <<pause_event, pgate, notPause>>

\* A _wait_if_paused that returns at once.
wait_if_paused_not_waiting ==
    /\ ppc = "check"
    /\ ppc' = "write"
    /\ UNCHANGED <<pause_event, pkind, pfiles, pidx, psent, pfrom, pwrote, pgate, notPause>>

\* _wait_if_paused, lines 137-140: pause_event.wait() returns once the flag is set.
wait_if_paused ==
    /\ ppc = "check"
    /\ pause_event
    /\ ppc' = "write"
    /\ UNCHANGED <<pause_event, pkind, pfiles, pidx, psent, pfrom, pwrote, pgate, notPause>>

\* The rest of the turn (lines 97-102, 219-224, 318-323): read a chunk, sendall,
\* sent += len(data); then the loop condition, and the next file when this one is
\* done.
send_chunk ==
    /\ ppc = "write"
    /\ LET data == ReadChunk(PauseData(pfiles[pidx]), psent)
           nx == PauseNext(pfiles, pidx, psent + Len(data))
       IN  /\ pwrote' = IF nx.idx = pidx \/ nx.pc = "done" THEN pwrote \o data ELSE <<>>
           /\ ppc' = nx.pc /\ pidx' = nx.idx /\ psent' = nx.sent
    /\ pgate' = IF pause_event THEN pgate ELSE pgate + 1
    /\ UNCHANGED <<pause_event, pkind, pfiles, pfrom, notPause>>

\* The caller pauses: pause_event.clear().
PauseClear ==
    /\ pause_event
    /\ pause_event' = FALSE /\ pgate' = 0
    /\ UNCHANGED <<ppc, pkind, pfiles, pidx, psent, pfrom, pwrote, notPause>>

\* The caller resumes: pause_event.set().
PauseSet ==
    /\ ~pause_event
    /\ pause_event' = TRUE /\ pgate' = 0
    /\ UNCHANGED <<ppc, pkind, pfiles, pidx, psent, pfrom, pwrote, notPause>>

NextPause == PauseStart \/ wait_if_paused \/ send_chunk \/ PauseClear \/ PauseSet

InitPause == InitBut /\ family = "none"

SpecPause == InitPause /\ [][NextPause]_vars

BEACON_INTERVAL == 1
TIMEOUT == 4

\* The clock stops here.
MaxTime == 6

\* What each instance announces: _get_local_ip() and the port it was given.
IpOf == [n \in Nodes |-> IF n = "A" THEN "10.0.0.1" ELSE "10.0.0.2"]
PortOf == [n \in Nodes |-> IF n = "A" THEN 5000 ELSE 5001]

\* json.dumps of the beacon, lines 154-159, as the datagram sent on one channel.
Beacon(n, chan) ==
    [chan |-> chan, form |-> "beacon", name |-> n, ip |-> IpOf[n], port |-> PortOf[n]]

\* set(self.peers.keys())
Known(tbl) == {m \in Nodes : tbl[m].known}

\* get_peers(): a copy of the table, taken under the lock; no entry is left out
\* for its age.
get_peers(n) ==
    [m \in Known(peers[n]) |->
        [ip |-> peers[n][m].ip, port |-> peers[n][m].port, last_seen |-> peers[n][m].last_seen]]

\* start(): the three threads are started; the broadcaster makes its sockets
\* (lines 130-167) and sends at once, the reaper sleeps first.  An instance is
\* started once.
start(n) ==
    /\ ~running[n]
    /\ started[n] = -1
    /\ running' = [running EXCEPT ![n] = TRUE]
    /\ started' = [started EXCEPT ![n] = now]
    /\ beaconer' = [beaconer EXCEPT ![n] = TRUE]
    /\ bsocks' = [bsocks EXCEPT ![n] = TRUE]
    /\ multicast_ok' = [multicast_ok EXCEPT ![n] = TRUE]
    /\ broadcast_ok' = [broadcast_ok EXCEPT ![n] = TRUE]
    /\ nextBeacon' = [nextBeacon EXCEPT ![n] = now]
    /\ listener' = [listener EXCEPT ![n] = TRUE]
    /\ reaper' = [reaper EXCEPT ![n] = TRUE]
    /\ nextReap' = [nextReap EXCEPT ![n] = now + BEACON_INTERVAL]
    /\ fired' = {}
    /\ ev' = NoEvent
    /\ UNCHANGED <<now, listening, peers, inbox, joining, dloss, notDisc>>

\* _listen_for_beacons up to the loop: the socket is bound and joins the group.
listen_bind(n) ==
    /\ listener[n]
    /\ running[n]
    /\ ~listening[n]
    /\ listening' = [listening EXCEPT ![n] = TRUE]
    /\ fired' = {}
    /\ ev' = NoEvent
    /\ UNCHANGED <<now, running, started, nextBeacon, reaper, nextReap, peers, inbox,
                   dthreads, dsend, dloss, notDisc>>

\* stop() as one step: running is cleared, the sockets are closed and the joins
\* are over; the broadcaster and the listener, which do nothing more once
\* running is cleared, are taken to have ended with it.  The reaper is asleep
\* and is not interrupted.
stop(n) ==
    /\ running[n]
    /\ running' = [running EXCEPT ![n] = FALSE]
    /\ listening' = [listening EXCEPT ![n] = FALSE]
    /\ inbox' = [inbox EXCEPT ![n] = <<>>]
    /\ bsocks' = [bsocks EXCEPT ![n] = FALSE]
    /\ beaconer' = [beaconer EXCEPT ![n] = FALSE]
    /\ listener' = [listener EXCEPT ![n] = FALSE]
    /\ nextBeacon' = [nextBeacon EXCEPT ![n] = 0]
    /\ fired' = {}
    /\ ev' = NoEvent
    /\ UNCHANGED <<now, started, reaper, nextReap, peers, joining, dsend, dloss, notDisc>>

\* The variant of stop() that goes to its joins with the sockets left open.
stop_without_closing(n) ==
    /\ running[n]
    /\ running' = [running EXCEPT ![n] = FALSE]
    /\ joining' = [joining EXCEPT ![n] = TRUE]
    /\ fired' = {}
    /\ ev' = NoEvent
    /\ UNCHANGED <<now, started, listening, inbox, bsocks, nextBeacon, reaper, nextReap, peers,
                   beaconer, listener, dsend, dloss, notDisc>>

\* stop(), lines 72-92: running is cleared, the listen socket and the beacon
\* sockets are closed; what was queued on the listen socket is gone.
stop_close(n) ==
    /\ running[n]
    /\ running' = [running EXCEPT ![n] = FALSE]
    /\ listening' = [listening EXCEPT ![n] = FALSE]
    /\ inbox' = [inbox EXCEPT ![n] = <<>>]
    /\ bsocks' = [bsocks EXCEPT ![n] = FALSE]
    /\ joining' = [joining EXCEPT ![n] = TRUE]
    /\ fired' = {}
    /\ ev' = NoEvent
    /\ UNCHANGED <<now, started, nextBeacon, reaper, nextReap, peers, beaconer, listener,
                   dsend, dloss, notDisc>>

\* stop(), lines 94-100: each thread is joined for at most half a second, then
\* stop() returns whether or not the thread has ended.
stop_join(n) ==
    /\ joining[n]
    /\ joining' = [joining EXCEPT ![n] = FALSE]
    /\ fired' = {}
    /\ ev' = NoEvent
    /\ UNCHANGED <<now, running, started, listening, nextBeacon, reaper, nextReap, peers, inbox,
                   beaconer, listener, bsocks, dsend, dloss, notDisc>>

\* The datagrams one turn of the broadcaster gets out: multicast first.
Sent(n, viaM, viaB) ==
    (IF viaM THEN <<Beacon(n, "multicast")>> ELSE <<>>) \o
    (IF viaB THEN <<Beacon(n, "broadcast")>> ELSE <<>>)

\* The variant of the broadcaster that announces itself once and falls silent.
broadcast_beacon_once(n, mfail, bfail) ==
    /\ beaconer[n]
    /\ running[n]
    /\ nextBeacon[n] <= now
    /\ ~mfail /\ ~bfail
    /\ inbox' = [m \in Nodes |->
                    IF listening[m] THEN inbox[m] \o Sent(n, TRUE, TRUE) ELSE inbox[m]]
    /\ nextBeacon' = [nextBeacon EXCEPT ![n] = MaxTime + 1]
    /\ fired' = {}
    /\ ev' = NoEvent
    /\ UNCHANGED <<now, running, started, listening, reaper, nextReap, peers, dthreads,
                   dsend, dloss, notDisc>>

\* The variant of the broadcaster that tries multicast again after a failure.
broadcast_beacon_retrying(n, mfail, bfail) ==
    /\ beaconer[n]
    /\ running[n]
    /\ nextBeacon[n] <= now
    /\ bfail => broadcast_ok[n]
    /\ inbox' = [m \in Nodes |->
                    IF listening[m]
                    THEN inbox[m] \o Sent(n, ~mfail, broadcast_ok[n] /\ ~bfail)
                    ELSE inbox[m]]
    /\ multicast_ok' = [multicast_ok EXCEPT ![n] = ~mfail]
    /\ broadcast_ok' = [broadcast_ok EXCEPT ![n] = @ /\ ~bfail]
    /\ nextBeacon' = [nextBeacon EXCEPT ![n] = now + BEACON_INTERVAL]
    /\ fired' = {}
    /\ ev' = NoEvent
    /\ UNCHANGED <<now, running, started, listening, reaper, nextReap, peers, dthreads,
                   dloss, notDisc>>

\* One turn of the loop of _broadcast_beacon after its sleep.  With running
\* cleared the loop ends.  Otherwise sendto is called on the multicast socket
\* if multicast_ok and on the broadcast socket if broadcast_ok; a sendto that
\* raises (mfail, bfail) clears its flag; what was sent reaches every bound
\* listen socket (the sender's too); then sleep BEACON_INTERVAL.
broadcast_beacon(n, mfail, bfail) ==
    /\ beaconer[n]
    /\ nextBeacon[n] <= now
    /\ fired' = {}
    /\ ev' = NoEvent
    /\ IF ~running[n]
       THEN /\ ~mfail /\ ~bfail
            /\ beaconer' = [beaconer EXCEPT ![n] = FALSE]
            /\ nextBeacon' = [nextBeacon EXCEPT ![n] = 0]
                    /\ UNCHANGED <<inbox, dsend, listener, bsocks, joining>>
       ELSE /\ mfail => multicast_ok[n]
            /\ bfail => broadcast_ok[n]
            /\ inbox' = [m \in Nodes |->
                            IF listening[m]
                            THEN inbox[m] \o Sent(n, multicast_ok[n] /\ ~mfail,
                                                  broadcast_ok[n] /\ ~bfail)
                            ELSE inbox[m]]
            /\ multicast_ok' = [multicast_ok EXCEPT ![n] = @ /\ ~mfail]
            /\ broadcast_ok' = [broadcast_ok EXCEPT ![n] = @ /\ ~bfail]
            /\ nextBeacon' = [nextBeacon EXCEPT ![n] = now + BEACON_INTERVAL]
            /\ UNCHANGED dthreads
    /\ UNCHANGED <<now, running, started, listening, reaper, nextReap, peers, dloss, notDisc>>

\* The variant of the upsert that calls back on every beacon.
UpsertAlwaysCalling(n, d) ==
    /\ peers' = [peers EXCEPT ![n][d.name] =
                    [known |-> TRUE, ip |-> d.ip, port |-> d.port, last_seen |-> now]]
    /\ fired' = {n}

\* Lines 306-317: the entry is written under the lock; the callback runs when
\* the key set changed.
Upsert(n, d) ==
    /\ peers' = [peers EXCEPT ![n][d.name] =
                    [known |-> TRUE, ip |-> d.ip, port |-> d.port, last_seen |-> now]]
    /\ fired' = IF Known(peers[n]) # Known(peers'[n]) THEN {n} ELSE {}

\* What a datagram can be, other than a beacon: bytes that are not UTF-8, text
\* that is not JSON, JSON that is not an object, an object without a key.
Malformed == {"not_utf8", "not_json", "not_object", "no_name", "no_ip", "no_port"}

\* A datagram of another host; name is the value of its 'name' key, if it has
\* one that is read.
Stray(form, name) ==
    [chan |-> "unicast", form |-> form,
     name |-> IF form \in {"no_ip", "no_port"} THEN name ELSE "", ip |-> "", port |-> 0]

\* Lines 299-311: what handling the datagram raises.  data.decode('utf-8'),
\* json.loads, message['name'], the test against machine_name, then
\* message['ip'] and message['port'] while the new entry is built.
Raises(n, d) ==
    IF d.form = "not_utf8" THEN "UnicodeDecodeError"
    ELSE IF d.form = "not_json" THEN "JSONDecodeError"
    ELSE IF d.form = "not_object" THEN "TypeError"
    ELSE IF d.form = "no_name" THEN "KeyError"
    ELSE IF d.name = n THEN "none"
    ELSE IF d.form \in {"no_ip", "no_port"} THEN "KeyError"
    ELSE "none"

\* Lines 319-324: the exceptions of a datagram after which the loop goes on.
ListenerCatches == {"JSONDecodeError", "KeyError"}

\* The variant of the listener without the test against machine_name.
listen_for_beacons_unfiltered(n) ==
    /\ listener[n]
    /\ listening[n]
    /\ inbox[n] # <<>>
    /\ inbox' = [inbox EXCEPT ![n] = Tail(@)]
    /\ LET d == Head(inbox[n]) IN
       /\ d.form = "beacon"
       /\ ev' = [kind |-> IF d.name = n THEN "own" ELSE "beacon", node |-> n, name |-> d.name,
                 had |-> peers[n][d.name].known]
       /\ Upsert(n, d)
    /\ UNCHANGED <<now, running, started, listening, nextBeacon, reaper, nextReap,
                   dthreads, dsend, dloss, notDisc>>

\* One turn of the loop of _listen_for_beacons: recvfrom takes the next
\* datagram.  A beacon of the instance itself is skipped; a datagram whose
\* handling raises JSONDecodeError or KeyError is skipped; any other exception
\* leaves the loop through the finally clause, which closes the socket.
listen_for_beacons(n) ==
    /\ listener[n]
    /\ listening[n]
    /\ inbox[n] # <<>>
    /\ LET d == Head(inbox[n])
           exc == Raises(n, d) IN
       IF exc = "none" /\ d.name = n
       THEN /\ ev' = [kind |-> "own", node |-> n, name |-> d.name, had |-> FALSE]
            /\ fired' = {}
            /\ inbox' = [inbox EXCEPT ![n] = Tail(@)]
            /\ UNCHANGED <<peers, listening, listener, missed>>
       ELSE IF exc = "none"
       THEN /\ ev' = [kind |-> "beacon", node |-> n, name |-> d.name,
                      had |-> peers[n][d.name].known]
            /\ Upsert(n, d)
            /\ inbox' = [inbox EXCEPT ![n] = Tail(@)]
            /\ missed' = [missed EXCEPT ![n][d.name] = FALSE]
            /\ UNCHANGED <<listening, listener>>
       ELSE IF exc \in ListenerCatches
       THEN /\ ev' = [kind |-> "dropped", node |-> n, name |-> d.form, had |-> FALSE]
            /\ fired' = {}
            /\ inbox' = [inbox EXCEPT ![n] = Tail(@)]
            /\ UNCHANGED <<peers, listening, listener, missed>>
       ELSE /\ ev' = [kind |-> "died", node |-> n, name |-> d.form, had |-> FALSE]
            /\ fired' = {}
            /\ inbox' = [inbox EXCEPT ![n] = <<>>]
            /\ listening' = [listening EXCEPT ![n] = FALSE]
            /\ listener' = [listener EXCEPT ![n] = FALSE]
            /\ UNCHANGED <<peers, missed>>
    /\ UNCHANGED <<now, running, started, nextBeacon, reaper, nextReap, beaconer, bsocks,
                   joining, dsend, gapped, notDisc>>

\* The listener leaves its loop after stop(): recvfrom on the closed socket
\* raises OSError (break), or its one-second timeout ends and the loop test
\* finds running cleared.
listen_exit(n) ==
    /\ listener[n]
    /\ ~running[n]
    /\ listener' = [listener EXCEPT ![n] = FALSE]
    /\ listening' = [listening EXCEPT ![n] = FALSE]
    /\ fired' = {}
    /\ ev' = NoEvent
    /\ UNCHANGED <<now, running, started, nextBeacon, reaper, nextReap, peers, inbox,
                   beaconer, bsocks, joining, dsend, dloss, notDisc>>

\* The variant of the staleness test that evicts at TIMEOUT already.
StaleAtTimeout(n) == {m \in Known(peers[n]) : now - peers[n][m].last_seen >= TIMEOUT}

\* The variant of the staleness test with no beacon to spare.
StaleAfterOneInterval(n) ==
    {m \in Known(peers[n]) : now - peers[n][m].last_seen > BEACON_INTERVAL}

\* Lines 340-341: the names whose last beacon is more than TIMEOUT old.
Stale(n) == {m \in Known(peers[n]) : now - peers[n][m].last_seen > TIMEOUT}

\* One turn of the loop of _cleanup_stale_peers after its sleep: the stale
\* entries are deleted under the lock, the callback runs when the key set
\* changed, and the loop goes on while running.
cleanup_stale_peers(n) ==
    /\ reaper[n]
    /\ nextReap[n] <= now
    /\ peers' = [peers EXCEPT ![n] = [m \in Nodes |-> IF m \in Stale(n) THEN NoPeer ELSE @[m]]]
    /\ fired' = IF Known(peers[n]) # Known(peers'[n]) THEN {n} ELSE {}
    /\ ev' = [kind |-> "reap", node |-> n, name |-> "", had |-> Stale(n) # {}]
    /\ reaper' = [reaper EXCEPT ![n] = running[n]]
    /\ nextReap' = [nextReap EXCEPT ![n] = IF running[n] THEN now + BEACON_INTERVAL ELSE 0]
    /\ UNCHANGED <<now, running, started, listening, nextBeacon, inbox, dthreads, dsend,
                   dloss, notDisc>>

\* The network loses the beacon that src has just sent before it reaches the
\* listen socket of n: both copies.
datagram_lost(n, src) ==
    /\ src # n
    /\ \E i \in DOMAIN inbox[n] : inbox[n][i].form = "beacon" /\ inbox[n][i].name = src
    /\ ~(peers[n][src].known /\ peers[n][src].last_seen = now)
    /\ inbox' = [inbox EXCEPT ![n] =
                    SelectSeq(@, LAMBDA d : ~(d.form = "beacon" /\ d.name = src))]
    /\ gapped' = [gapped EXCEPT ![n][src] = @ \/ missed[n][src]]
    /\ missed' = [missed EXCEPT ![n][src] = TRUE]
    /\ fired' = {}
    /\ ev' = NoEvent
    /\ UNCHANGED <<now, running, started, listening, nextBeacon, reaper, nextReap, peers,
                   dthreads, dsend, notDisc>>

\* Another host sends a datagram that is no beacon to the port of n; the
\* socket holds one such datagram at a time.
stray_datagram(n, form, name) ==
    /\ listening[n]
    /\ \A i \in DOMAIN inbox[n] : inbox[n][i].form = "beacon"
    /\ inbox' = [inbox EXCEPT ![n] = Append(@, Stray(form, name))]
    /\ fired' = {}
    /\ ev' = NoEvent
    /\ UNCHANGED <<now, running, started, listening, nextBeacon, reaper, nextReap, peers,
                   dthreads, dsend, dloss, notDisc>>

\* A second passes once every thread whose sleep has ended has run, every
\* datagram queued has been read (the listener does not sleep), and a stop()
\* under way has returned and has been noticed by the listener.
Tick ==
    /\ now < MaxTime
    /\ \A n \in Nodes : (running[n] /\ listener[n]) => listening[n]
    /\ \A n \in Nodes : ~running[n] => (~listener[n] /\ ~joining[n])
    /\ \A n \in Nodes : beaconer[n] => nextBeacon[n] > now
    /\ \A n \in Nodes : reaper[n] => nextReap[n] > now
    /\ \A n \in Nodes : inbox[n] = <<>>
    /\ now' = now + 1
    /\ fired' = {}
    /\ ev' = NoEvent
    /\ UNCHANGED <<running, started, listening, nextBeacon, reaper, nextReap, peers, inbox,
                   dthreads, dsend, dloss, notDisc>>

NextDisc ==
    \/ \E n \in Nodes : start(n)
    \/ \E n \in Nodes : listen_bind(n)
    \/ \E n \in Nodes : stop(n)
    \/ \E n \in Nodes : broadcast_beacon(n, FALSE, FALSE)
    \/ \E n \in Nodes : listen_for_beacons(n)
    \/ \E n \in Nodes : cleanup_stale_peers(n)
    \/ Tick

InitDisc == InitBut /\ family = "none"

SpecDisc == InitDisc /\ [][NextDisc]_vars

\* The instances are started when the run begins.
boot(n) == now = 0 /\ start(n)

\* The instance that gets the datagrams of other hosts.
StrayTarget == "A"

\* Two instances started together and left running, on a network where other
\* hosts send datagrams that are no beacons to the port of one of them.
NextStray ==
    \/ \E n \in Nodes : boot(n)
    \/ \E n \in Nodes : listen_bind(n)
    \/ \E n \in Nodes : broadcast_beacon(n, FALSE, FALSE)
    \/ \E n \in Nodes : listen_for_beacons(n)
    \/ \E n \in Nodes : cleanup_stale_peers(n)
    \/ \E form \in Malformed, name \in Nodes : stray_datagram(StrayTarget, form, name)
    \/ Tick

SpecStray == InitDisc /\ [][NextStray]_vars

\* Two instances started together and left running, whose sendto calls can
\* raise.
NextSendFail ==
    \/ \E n \in Nodes : boot(n)
    \/ \E n \in Nodes : listen_bind(n)
    \/ \E n \in Nodes, mfail, bfail \in BOOLEAN : broadcast_beacon(n, mfail, bfail)
    \/ \E n \in Nodes : listen_for_beacons(n)
    \/ \E n \in Nodes : cleanup_stale_peers(n)
    \/ Tick

SpecSendFail == InitDisc /\ [][NextSendFail]_vars

\* A step of a thread of an instance, or of stop() at its joins.
ThreadStep ==
    \E n \in Nodes :
        \/ listen_bind(n)
        \/ stop_join(n)
        \/ broadcast_beacon(n, FALSE, FALSE)
        \/ listen_for_beacons(n)
        \/ listen_exit(n)
        \/ cleanup_stale_peers(n)

\* Two instances started together, each stopped at any time, with stop() and
\* the ends of the threads as steps of their own.
NextStop ==
    \/ \E n \in Nodes : boot(n)
    \/ \E n \in Nodes : stop_close(n)
    \/ ThreadStep
    \/ Tick

\* A thread that can run does run, and time passes.
SpecStop == InitDisc /\ [][NextStop]_vars /\ WF_vars(ThreadStep) /\ WF_vars(Tick)

\* Two instances started together and left running, on a network that loses
\* beacons.
NextLossy ==
    \/ \E n \in Nodes : boot(n)
    \/ \E n \in Nodes : listen_bind(n)
    \/ \E n \in Nodes : broadcast_beacon(n, FALSE, FALSE)
    \/ \E n \in Nodes : listen_for_beacons(n)
    \/ \E n \in Nodes : cleanup_stale_peers(n)
    \/ \E n, src \in Nodes : datagram_lost(n, src)
    \/ Tick

SpecLossy == InitDisc /\ [][NextLossy]_vars

\* C27: offset negotiation and the partial-size invariant. On a resumable
\* connection the offset reply is 0 when the partial file found is longer than
\* the declared size, and that file's bytes are gone after the reply;
\* otherwise the reply is the length of the partial file found (0 for none).
\* In every state of the receive loop the partial file exists, its length is
\* the received counter, and the counter is at most the declared size.
Declared == rlog[Len(rlog)]
TooLong(pf, filesize) == pf.exists /\ Len(pf.data) > filesize
BadHeader ==
    \/ cproto = MAGIC_UNKNOWN
    \/ cproto \in {MAGIC_SINGLE, MAGIC_RESUMABLE} /\ cres = "killed" /\ cfiles = <<>>
    \/ cproto = MAGIC_MULTI /\ ccount > 0 /\ cres = "killed" /\ cfiles = <<>>

\* Nothing was written to the directory and nothing was sent on the connection.
Dropped ==
    /\ dest = dest0 /\ partial = partial0
    /\ offsets = <<>> /\ statuses = <<>> /\ s2c = <<>>

\* C28: a connection whose first 4 bytes are no known magic, or which closes
\* before a complete header has arrived, is dropped: the server writes no
\* file, creates no partial file and sends no bytes on it.
C28_BadHeaderDropped == BadHeader => Dropped

\* The same for the connections that are not of the multi-file protocol.
C28_DroppedUnlessMulti == (BadHeader /\ cproto # MAGIC_MULTI) => Dropped

\* ------------------------------------------------------------------------
\* _recv_exact (transfer_server.py 351-359, transfer_client.py 127-135) and the
\* receiver's test of what it returned
\* ------------------------------------------------------------------------

\* _recv_exact(conn, size) is called: data = b''.
recv_exact_call(size) ==
    /\ xpc \in {"idle", "field"}
    /\ xpc' = "loop"
    /\ xsize' = size
    /\ xbase' = Len(xorig) - Len(xrest)
    /\ xdata' = <<>>
    /\ xret' = "none"
    /\ UNCHANGED <<xorig, xrest, notRecv>>

\* The lengths conn.recv(want) can return: at least one byte and at most want,
\* never more than the stream still holds; 0 only at the end of the stream.
RecvLengths(want, stream) ==
    IF stream = <<>> THEN {0} ELSE 1..Min(want, Len(stream))

\* A loop that returns what it has as soon as recv gives fewer bytes than asked.
RecvTurnSingleRead(k) ==
    /\ xdata' = SubSeq(xrest, 1, k)
    /\ xrest' = SubSeq(xrest, k + 1, Len(xrest))
    /\ xpc' = "returned"
    /\ xret' = IF k = 0 THEN "None" ELSE "bytes"

\* Lines 354-358: one turn of the loop with a recv of k bytes.
RecvTurn(k) ==
    IF k = 0
    THEN /\ xpc' = "returned" /\ xret' = "None"
         /\ UNCHANGED <<xdata, xrest>>
    ELSE /\ xdata' = xdata \o SubSeq(xrest, 1, k)
         /\ xrest' = SubSeq(xrest, k + 1, Len(xrest))
         /\ UNCHANGED <<xpc, xret>>

\* _recv_exact, lines 354-359: the loop test and, while it holds, one turn;
\* return data when it fails.
recv_exact_step ==
    /\ xpc = "loop"
    /\ IF Len(xdata) < xsize
       THEN \E k \in RecvLengths(xsize - Len(xdata), xrest) : RecvTurn(k)
       ELSE /\ xpc' = "returned" /\ xret' = "bytes"
            /\ UNCHANGED <<xdata, xrest>>
    /\ UNCHANGED <<xorig, xbase, xsize, notRecv>>

\* The receiver's test of the field, "if not filename_data: return None"
\* (transfer_server.py 99-100, and after each _recv_exact of the handlers).
field_test ==
    /\ xpc = "returned"
    /\ xpc' = IF xret = "None" \/ xdata = <<>> THEN "closed" ELSE "field"
    /\ UNCHANGED <<xorig, xrest, xbase, xsize, xdata, xret, notRecv>>

\* A peer connects and writes a stream, then closes.
peer_writes(stream) ==
    /\ xpc \in {"idle", "closed"}
    /\ xorig' = stream /\ xrest' = stream
    /\ xbase' = 0 /\ xsize' = 0 /\ xdata' = <<>> /\ xpc' = "idle" /\ xret' = "none"
    /\ UNCHANGED notRecv

NextRecv ==
    \/ \E stream \in Streams : peer_writes(stream)
    \/ \E size \in 0..MaxStream : recv_exact_call(size)
    \/ recv_exact_step
    \/ field_test

SpecRecv == InitLoop /\ [][NextRecv]_vars

\* The call has returned: the bytes the stream held when it was called.
AtCall == SubSeq(xorig, xbase + 1, Len(xorig))
Returned == xpc \in {"returned", "field", "closed"} /\ xret # "none"

\* C29: _recv_exact(conn, N) returns exactly the next N bytes of the stream, in
\* order, however recv splits them, and returns None exactly when the stream
\* ends before N bytes have arrived; and the receiver takes a closed connection
\* from it only then, not from a field of declared length 0.
C29_RecvExact ==
    /\ Returned =>
          /\ xret = "None" <=> Len(AtCall) < xsize
          /\ xret = "bytes" => xdata = SubSeq(AtCall, 1, xsize)
          /\ xret = "bytes" => xrest = SubSeq(AtCall, xsize + 1, Len(AtCall))
    /\ xpc = "closed" => xret = "None"

\* The part of it that is about _recv_exact alone.
C29_ExactBytesOrNone ==
    Returned =>
        /\ xret = "None" <=> Len(AtCall) < xsize
        /\ xret = "bytes" => xdata = SubSeq(AtCall, 1, xsize)
        /\ xret = "bytes" => xrest = SubSeq(AtCall, xsize + 1, Len(AtCall))

\* ------------------------------------------------------------------------
\* The construction of the server object and its accept loop
\* ------------------------------------------------------------------------

\* transfer_server.py line 15: def __init__(self, port=5000, output_dir='.').
InitParams == {"port", "output_dir"}

\* The places that construct a TransferServer, and the keyword arguments each
\* passes: file_transfer.py line 47, file_transfer_gui.py line 3515.
CallSites == {"file_transfer", "file_transfer_gui"}
Keywords(site) ==
    IF site = "file_transfer_gui" THEN {"port", "output_dir", "progress_callback"}
    ELSE {"port", "output_dir"}

\* Calling a Python function with a keyword it does not declare raises
\* TypeError before its body runs.
TransferServer_init(kw) == IF kw \subseteq InitParams THEN "built" ELSE "TypeError"

\* The call site constructs the server. Lines 16-18 of __init__ assign port
\* and output_dir and nothing else: the object holds no callback.
run_server(site) ==
    /\ gserver = "none"
    /\ gsite' = site
    /\ gserver' = TransferServer_init(Keywords(site))
    /\ gcallback' = "none"
    /\ UNCHANGED <<lvars, notRun>>

\* server.start() (file_transfer.py 48, file_transfer_gui.py 3626) is reached
\* only with a server object.
server_start_loop ==
    /\ gserver = "built"
    /\ NextLoop

NextRun ==
    \/ \E site \in CallSites : run_server(site)
    \/ server_start_loop

SpecRun == InitLoop /\ [][NextRun]_vars

\* C26: the transfer server accepts a caller-supplied progress callback (and
\* invokes it for each chunk it receives): the server the GUI constructs with
\* progress_callback is built and holds the callback it was given.
C26_ProgressCallback ==
    gsite = "file_transfer_gui" => (gserver = "built" /\ gcallback = "_server_progress")

\* ------------------------------------------------------------------------
\* The peer table as Python objects: listener, reaper, get_peers, the caller
\* ------------------------------------------------------------------------

\* The inner dicts a dict refers to.
Refs(d) == {d[k] : k \in PeerNames} \ {0}

\* A dict display makes a new object.
New(c) == Len(c) + 1

\* The references of the three dicts, in a fixed order.
DictSeq(d) == [i \in DOMAIN PeerSeq |-> d[PeerSeq[i]]]
Roots(t, r, v) == DictSeq(t) \o DictSeq(r) \o DictSeq(v)

\* Object identities carry no meaning: an object is numbered by the place of
\* the first reference to it.
Rename(i, rs) ==
    IF i = 0 THEN 0
    ELSE LET first == CHOOSE j \in DOMAIN rs : rs[j] = i /\ \A k \in 1..(j - 1) : rs[k] # i
         IN Cardinality({rs[j] : j \in 1..first} \ {0})

\* The next state of the objects: table t, result r, view v over the inner
\* dicts c. Objects nothing refers to any more are freed.
Settle(t, r, v, c) ==
    LET rs == Roots(t, r, v)
        live == Refs(t) \cup Refs(r) \cup Refs(v)
    IN /\ ptable' = [k \in PeerNames |-> Rename(t[k], rs)]
       /\ result' = [k \in PeerNames |-> Rename(r[k], rs)]
       /\ view' = [k \in PeerNames |-> Rename(v[k], rs)]
       /\ cells' = [n \in 1..Cardinality(live) |->
                      c[CHOOSE i \in live : Rename(i, rs) = n]]

\* What a dict holds, looked through to its inner dicts.
Content(d) == [k \in {x \in PeerNames : d[x] # 0} |-> cells[d[k]]]

\* The listener has a beacon of a peer and takes the lock (line 306).
table_listen_lock(name) ==
    /\ lck = "free"
    /\ lck' = "listener"
    /\ lname' = name
    /\ UNCHANGED <<ptable, cells, rtodo, result, rleft, view, cb, dvars, notTable>>

\* Lines 307-317: a new inner dict is stored under the name, and the lock is
\* released.
table_listen_store ==
    /\ lck = "listener"
    /\ Settle([ptable EXCEPT ![lname] = New(cells)], result, view,
              Append(cells, [ip |-> lname, port |-> 1, last_seen |-> now]))
    /\ lck' = "free"
    /\ lname' = ""
    /\ UNCHANGED <<rtodo, rleft, cb, dvars, notTable>>

\* The reaper takes the lock and lists the stale names (lines 338-341).
table_reap_lock ==
    /\ lck = "free"
    /\ lck' = "reaper"
    /\ rtodo' = {k \in PeerNames : ptable[k] # 0 /\ now - cells[ptable[k]].last_seen > TIMEOUT}
    /\ UNCHANGED <<ptable, cells, lname, result, rleft, view, cb, dvars, notTable>>

\* Lines 343-344: del self.peers[name] for one stale name.
table_reap_del(name) ==
    /\ lck = "reaper"
    /\ name \in rtodo
    /\ rtodo' = rtodo \ {name}
    /\ Settle([ptable EXCEPT ![name] = 0], result, view, cells)
    /\ UNCHANGED <<lck, lname, rleft, cb, dvars, notTable>>

\* The reaper has deleted them all and releases the lock.
table_reap_unlock ==
    /\ lck = "reaper"
    /\ rtodo = {}
    /\ lck' = "free"
    /\ UNCHANGED <<ptable, cells, lname, rtodo, result, rleft, view, cb, dvars, notTable>>

\* get_peers, lines 104-106: the lock is taken, result = {}.
get_peers_lock ==
    /\ lck = "free"
    /\ lck' = "reader"
    /\ Settle(ptable, NoDict, view, cells)
    /\ rleft' = {k \in PeerNames : ptable[k] # 0}
    /\ UNCHANGED <<lname, rtodo, cb, dvars, notTable>>

\* The variant of the copy that puts the table's own inner dict in the result.
CopyEntryShared(name) ==
    Settle(ptable, [result EXCEPT ![name] = ptable[name]], view, cells)

\* Lines 108-112: a new inner dict with the three values of the entry.
CopyEntry(name) ==
    Settle(ptable, [result EXCEPT ![name] = New(cells)], view,
           Append(cells, [ip |-> cells[ptable[name]].ip,
                          port |-> cells[ptable[name]].port,
                          last_seen |-> cells[ptable[name]].last_seen]))

\* One turn of the for loop of get_peers, lines 107-112.
get_peers_copy(name) ==
    /\ lck = "reader"
    /\ name \in rleft
    /\ rleft' = rleft \ {name}
    /\ CopyEntry(name)
    /\ UNCHANGED <<lck, lname, rtodo, cb, dvars, notTable>>

\* Line 113: return result, leaving the with block.
get_peers_return ==
    /\ lck = "reader"
    /\ rleft = {}
    /\ lck' = "free"
    /\ Settle(ptable, NoDict, result, cells)
    /\ UNCHANGED <<lname, rtodo, rleft, cb, dvars, notTable>>

\* The caller deletes a key of the dict it was given.
caller_del(name) ==
    /\ view[name] # 0
    /\ Settle(ptable, result, [view EXCEPT ![name] = 0], cells)
    /\ UNCHANGED <<lck, lname, rtodo, rleft, cb, dvars, notTable>>

\* The caller overwrites a value in an entry of the dict it was given.
caller_set(name) ==
    /\ view[name] # 0
    /\ cells[view[name]].ip # "changed"
    /\ cells' = [cells EXCEPT ![view[name]].ip = "changed"]
    /\ UNCHANGED <<ptable, lck, lname, rtodo, result, rleft, view, cb, dvars, notTable>>

NextTable ==
    \/ \E name \in PeerNames : table_listen_lock(name)
    \/ table_listen_store
    \/ table_reap_lock
    \/ \E name \in PeerNames : table_reap_del(name)
    \/ table_reap_unlock
    \/ get_peers_lock
    \/ \E name \in PeerNames : get_peers_copy(name)
    \/ get_peers_return
    \/ \E name \in PeerNames : caller_del(name)
    \/ \E name \in PeerNames : caller_set(name)
    \/ Tick

SpecTable == InitDisc /\ [][NextTable]_vars

\* ------------------------------------------------------------------------
\* The peer table with a callback: the command-line runner of
\* service_discovery.py, whose on_peers_changed calls get_peers()
\* ------------------------------------------------------------------------

\* Lines 394-397: the instance is constructed with callback=on_peers_changed.
construct_with_callback ==
    /\ now = 0 /\ cb = NoCallback
    /\ ptable = NoDict /\ lck = "free" /\ rtodo = {}
    /\ cb' = [cb EXCEPT !.fn = "on_peers_changed"]
    /\ UNCHANGED <<ptable, cells, lck, lname, rtodo, result, rleft, view, dvars, notTable>>

\* The end of a with block in which the key set changed or not (lines 313-317
\* and 346-351): with a callback set and the keys changed the thread calls the
\* callback, still holding the lock; otherwise it leaves the block.
CallbackOrRelease(thread, changed) ==
    IF changed /\ cb.fn # "none"
    THEN /\ cb' = [cb EXCEPT !.thread = thread]
         /\ UNCHANGED lck
    ELSE /\ lck' = "free"
         /\ UNCHANGED cb

\* Lines 307-317: the upsert of the listener and what follows it in the block.
listen_upsert ==
    /\ lck = "listener" /\ cb.thread = "none"
    /\ Settle([ptable EXCEPT ![lname] = New(cells)], result, view,
              Append(cells, [ip |-> lname, port |-> 1, last_seen |-> now]))
    /\ CallbackOrRelease("listener", ptable[lname] = 0)
    /\ lname' = ""
    /\ UNCHANGED <<rtodo, rleft, dvars, notTable>>

\* Lines 339-351: one pass of the reaper, whole, under the lock.
reap_pass ==
    /\ lck = "free"
    /\ LET stale == {k \in PeerNames : ptable[k] # 0 /\ now - cells[ptable[k]].last_seen > TIMEOUT}
       IN /\ Settle([k \in PeerNames |-> IF k \in stale THEN 0 ELSE ptable[k]], result, view, cells)
          /\ IF stale # {} /\ cb.fn # "none"
             THEN lck' = "reaper" /\ cb' = [cb EXCEPT !.thread = "reaper"]
             ELSE UNCHANGED <<lck, cb>>
    /\ UNCHANGED <<lname, rtodo, rleft, dvars, notTable>>

\* on_peers_changed, lines 394-395, run by the thread that called it:
\* discovery.get_peers() comes to "with self.lock" (line 104). With the lock
\* free it copies the table, prints it and returns, and the calling thread
\* leaves its block; with the lock held the thread waits at line 104.
on_peers_changed ==
    /\ cb.thread # "none" /\ ~cb.blocked
    /\ IF lck = "free"
       THEN cb' = [cb EXCEPT !.thread = "none"]
       ELSE cb' = [cb EXCEPT !.blocked = TRUE]
    /\ UNCHANGED <<ptable, cells, lck, lname, rtodo, result, rleft, view, dvars, notTable>>

NextCallback ==
    \/ construct_with_callback
    \/ \E name \in PeerNames : table_listen_lock(name)
    \/ listen_upsert
    \/ reap_pass
    \/ on_peers_changed
    \/ Tick

SpecCallback == InitDisc /\ [][NextCallback]_vars

\* C32: a peer-change callback that itself calls get_peers() returns: the
\* listener and the reaper invoke the callback in a state where get_peers()
\* can take the table mutex, so no discovery thread waits for the mutex for
\* ever.
C32_CallbackCanLock ==
    /\ cb.thread # "none" => lck = "free"
    /\ ~cb.blocked

\* C23: get_peers() returns a copy taken under the table mutex. The dict it
\* returns equals the table at the instant of the return, an instant at which
\* no upsert of the listener and no pass of the reaper is under way (the table
\* changes only in steps of the thread that holds the lock, and a reaper pass
\* or a copy is only ever under way in the holder of the lock); and the
\* returned dict and its entries are objects of their own, so that what the
\* caller does to them never shows in the table or in a later result.
NoSharing ==
    /\ Refs(view) \cap Refs(ptable) = {}
    /\ Refs(result) \cap Refs(ptable) = {}
    /\ Refs(view) \cap Refs(result) = {}
Untampered(d) == \A k \in PeerNames : d[k] # 0 => cells[d[k]].ip = k
C23_CopyUnderLock ==
    /\ [](/\ NoSharing
          /\ Untampered(ptable)
          /\ Untampered(result)
          /\ rtodo # {} => lck = "reaper"
          /\ lname # "" => lck = "listener"
          /\ rleft # {} => lck = "reader"
          /\ (lck = "reader" /\ rleft = {}) => Content(result) = Content(ptable))
    /\ [][/\ Content(ptable)' # Content(ptable) => lck \in {"listener", "reaper"}
          /\ (lck = "reader" /\ lck' = "free") =>
                /\ Content(view)' = Content(ptable)
                /\ Content(ptable)' = Content(ptable)]_vars

\* The caller has changed an entry of the dict it was given and deleted the
\* other, the table still holds both peers as announced, and a later
\* get_peers has copied both.
C23_Witness ==
    /\ view["p"] # 0 /\ cells[view["p"]].ip = "changed"
    /\ view["q"] = 0
    /\ ptable["p"] # 0 /\ ptable["q"] # 0
    /\ lck = "reader" /\ rleft = {}
    /\ result["p"] # 0 /\ result["q"] # 0

\* ------------------------------------------------------------------------
\* Discovery properties
\* ------------------------------------------------------------------------

Max(a, b) == IF a >= b THEN a ELSE b

BothRunning(n, m) == n # m /\ running[n] /\ running[m]

\* C18: two running instances with distinct names that both broadcast have,
\* from TIMEOUT seconds after the later of their two starts on, each the other's
\* name in get_peers() with the ip and the port the other announced.
C18_DiscoveryConvergence ==
    \A n, m \in Nodes :
        (BothRunning(n, m) /\ now >= Max(started[n], started[m]) + TIMEOUT) =>
            /\ m \in DOMAIN get_peers(n)
            /\ get_peers(n)[m].ip = IpOf[m]
            /\ get_peers(n)[m].port = PortOf[m]

C18_Witness ==
    /\ BothRunning("A", "B")
    /\ started["A"] = 0
    /\ started["B"] = 2
    /\ now = started["B"] + TIMEOUT
    /\ DOMAIN get_peers("A") = {"B"}
    /\ DOMAIN get_peers("B") = {"A"}
    /\ get_peers("B")["A"].port = PortOf["A"]

\* C19: the entry of a peer is gone from a running instance at the latest
\* TIMEOUT + BEACON_INTERVAL seconds after the last beacon received from it
\* (at that age only the pending reaper pass is left), and no entry is
\* removed while now - last_seen <= TIMEOUT.
C19_Eviction ==
    /\ [](\A n, m \in Nodes :
            (running[n] /\ peers[n][m].known) =>
                /\ now - peers[n][m].last_seen <= TIMEOUT + BEACON_INTERVAL
                /\ now - peers[n][m].last_seen = TIMEOUT + BEACON_INTERVAL =>
                       (reaper[n] /\ nextReap[n] <= now))
    /\ [][\A n, m \in Nodes :
            (peers[n][m].known /\ ~peers'[n][m].known) =>
                now - peers[n][m].last_seen > TIMEOUT]_vars

C19_Witness ==
    /\ ev = [kind |-> "reap", node |-> "A", name |-> "", had |-> TRUE]
    /\ running["A"]
    /\ ~running["B"]
    /\ started["B"] >= 0
    /\ DOMAIN get_peers("A") = {}
    /\ now = MaxTime

\* C20: the callback of an instance is invoked by a step exactly when that step
\* changes the set of names in its table: by a beacon that adds a name, by a
\* reaper pass that removes one, and not by a beacon that refreshes a known
\* name, by a beacon of the instance itself or by a reaper pass that removes
\* nothing.
C20_CallbackOnChange ==
    /\ [][\A n \in Nodes : n \in fired' <=> Known(peers'[n]) # Known(peers[n])]_vars
    /\ [](/\ ev.kind = "beacon" => (fired = IF ev.had THEN {} ELSE {ev.node})
          /\ ev.kind = "reap" => (fired = IF ev.had THEN {ev.node} ELSE {})
          /\ ev.kind \in {"own", "none"} => fired = {})

C20_Witness ==
    /\ ev = [kind |-> "beacon", node |-> "A", name |-> "B", had |-> TRUE]
    /\ fired = {}
    /\ peers["A"]["B"].last_seen = now
    /\ now > started["B"]

\* C21: no instance ever has an entry under its own machine_name, and the step
\* in which the listener takes a beacon carrying its own name changes no table
\* and invokes no callback.
C21_NoSelfEntry ==
    /\ [](\A n \in Nodes : ~peers[n][n].known /\ n \notin DOMAIN get_peers(n))
    /\ [][\A n \in Nodes :
            (/\ inbox[n] # <<>>
             /\ Head(inbox[n]).name = n
             /\ inbox'[n] = Tail(inbox[n])) => (peers' = peers /\ fired' = {})]_vars

C21_Witness ==
    /\ ev = [kind |-> "own", node |-> "A", name |-> "A", had |-> FALSE]
    /\ DOMAIN get_peers("A") = {"B"}
    /\ fired = {}

\* The listener of n takes the malformed datagram at the head of its queue.
TakesMalformed(n) ==
    /\ listening[n]
    /\ inbox[n] # <<>>
    /\ Head(inbox[n]).form \in Malformed
    /\ inbox'[n] # inbox[n]
    /\ ev'.node = n

\* C22: a malformed datagram (not valid JSON, or JSON without name, ip or
\* port) is dropped: the step that takes it changes no table and invokes no
\* callback, and the listener goes on to the next datagram.
C22_MalformedDropped ==
    [][\A n \in Nodes :
        TakesMalformed(n) =>
            /\ peers' = peers
            /\ fired' = {}
            /\ listener'[n] /\ listening'[n]
            /\ inbox'[n] = Tail(inbox[n])]_vars

\* The part of C22 that holds for every malformed datagram: no table changes and
\* no callback is invoked.
C22_TableUntouched ==
    [][\A n \in Nodes : TakesMalformed(n) => (peers' = peers /\ fired' = {})]_vars

\* The datagrams of n on a channel among those queued for m.
Queued(q, n, chan) == SelectSeq(q, LAMBDA d : d.form = "beacon" /\ d.name = n /\ d.chan = chan)

\* The broadcaster of n makes a turn of its loop.
BeaconTurn(n) == running[n] /\ nextBeacon'[n] # nextBeacon[n]

\* C24: once a multicast sendto has failed, multicast_ok stays cleared and no
\* turn of the broadcaster puts a multicast datagram on the network again; every
\* turn still sends the beacon by UDP broadcast (while that send works) and
\* sleeps BEACON_INTERVAL, so the other instance keeps the entry; the turn in
\* which the send fails changes neither a listen socket or listener thread nor
\* a table.
C24_MulticastDowngrade ==
    /\ [][\A n \in Nodes :
            (started[n] >= 0 /\ ~multicast_ok[n]) =>
                /\ ~multicast_ok'[n]
                /\ \A m \in Nodes :
                      Len(Queued(inbox'[m], n, "multicast")) <= Len(Queued(inbox[m], n, "multicast"))]_vars
    /\ [][\A n \in Nodes :
            (BeaconTurn(n) /\ broadcast_ok'[n]) =>
                /\ nextBeacon'[n] = now + BEACON_INTERVAL
                /\ \A m \in Nodes :
                      listening[m] => inbox'[m][Len(inbox'[m])] = Beacon(n, "broadcast")]_vars
    /\ [][\A n \in Nodes :
            (multicast_ok[n] /\ ~multicast_ok'[n]) =>
                /\ listening' = listening
                /\ listener' = listener
                /\ peers' = peers
                /\ fired' = {}]_vars
    /\ [](\A n, m \in Nodes :
            (BothRunning(n, m) /\ broadcast_ok[m] /\ now >= started[m] + TIMEOUT
                /\ now >= started[n] + TIMEOUT) =>
                (m \in DOMAIN get_peers(n) /\ now - get_peers(n)[m].last_seen <= BEACON_INTERVAL))

C24_Witness ==
    /\ ~multicast_ok["A"]
    /\ broadcast_ok["A"]
    /\ multicast_ok["B"]
    /\ now = MaxTime
    /\ inbox["B"] = <<Beacon("A", "broadcast")>>
    /\ "A" \in DOMAIN get_peers("B")
    /\ get_peers("B")["A"].last_seen = now - BEACON_INTERVAL

\* Every loop of n has ended.
ThreadsEnded(n) == ~beaconer[n] /\ ~listener[n] /\ ~reaper[n]

\* C25: while stop() is at its joins running is cleared and the listen socket
\* and the beacon sockets are closed already; and once stop() has been
\* called, the broadcaster, the listener (parked in recvfrom or not) and the
\* reaper all end.
C25_StopTerminates ==
    /\ [](\A n \in Nodes : joining[n] => (~running[n] /\ ~listening[n] /\ ~bsocks[n]))
    /\ \A n \in Nodes :
          (started[n] >= 0 /\ ~running[n] /\ now < MaxTime) ~> ThreadsEnded(n)

C25_Witness ==
    /\ started["A"] = 0
    /\ ~running["A"]
    /\ ~joining["A"]
    /\ ThreadsEnded("A")
    /\ running["B"]
    /\ "A" \in DOMAIN get_peers("B")
    /\ now = 2

\* C30: TIMEOUT is more than BEACON_INTERVAL, and the entry of a running peer
\* of which never two beacons in a row were lost is at most two intervals old
\* and is not removed by any step, the reaper's included, whatever the order
\* of listener and reaper in a second.
C30_MissedBeaconTolerance ==
    /\ [](TIMEOUT > BEACON_INTERVAL /\ TIMEOUT >= 2 * BEACON_INTERVAL)
    /\ [](\A n, m \in Nodes :
            (peers[n][m].known /\ running[m] /\ ~gapped[n][m]) =>
                now - peers[n][m].last_seen <= 2 * BEACON_INTERVAL)
    /\ [][\A n, m \in Nodes :
            (peers[n][m].known /\ running[m] /\ ~gapped[n][m]) => peers'[n][m].known]_vars

C30_Witness ==
    /\ ev = [kind |-> "reap", node |-> "A", name |-> "", had |-> FALSE]
    /\ missed["A"]["B"]
    /\ ~gapped["A"]["B"]
    /\ running["B"]
    /\ "B" \in DOMAIN get_peers("A")
    /\ now - get_peers("A")["B"].last_seen = 2 * BEACON_INTERVAL
    /\ now = MaxTime

\* ------------------------------------------------------------------------
\* One ServiceDiscovery object across stop() and start()

\* Most calls of start() that take effect on the one object.
MaxStarts == 2
LoopKinds == {"beacon", "listen", "cleanup"}

\* The threads of one kind whose loop has not ended.
Live(kind) == {t \in loops : t.kind = kind /\ t.pc # "exited"}

At(kind, g, pc) == [kind |-> kind, gen |-> g, pc |-> pc]
Move(kind, g, from, to) == loops' = (loops \ {At(kind, g, from)}) \cup {At(kind, g, to)}

\* start(), lines 50 to 68: nothing when running; else running is set and three
\* new threads are created, whatever became of the threads of the call before.
start_call ==
    /\ ~inst.running
    /\ inst.starts < MaxStarts
    /\ inst' = [inst EXCEPT !.running = TRUE, !.starts = @ + 1]
    /\ loops' = loops \cup {At("beacon", inst.starts + 1, "setup"),
                            At("listen", inst.starts + 1, "bind"),
                            At("cleanup", inst.starts + 1, "test")}
    /\ UNCHANGED notRestart

\* stop(), lines 70 to 100: running is cleared, the socket _listen_sock names and
\* the sockets in _beacon_sockets are closed, and each join gives up after half
\* a second, so that stop() returns whether or not the threads have ended.
stop_call ==
    /\ inst.starts > 0
    /\ inst' = [inst EXCEPT !.running = FALSE,
                            !.lopen = @ \ {inst.listen_sock},
                            !.listen_sock = 0,
                            !.bopen = {}]
    /\ UNCHANGED <<loops, notRestart>>

\* _broadcast_beacon, lines 135 to 166: the thread creates its sockets and
\* appends them to _beacon_sockets.
broadcast_setup(g) ==
    /\ At("beacon", g, "setup") \in loops
    /\ inst' = [inst EXCEPT !.bopen = @ \cup {g}]
    /\ Move("beacon", g, "setup", "test")
    /\ UNCHANGED notRestart

\* Lines 169 to 197: the test of running; a turn sends (or fails to, on closed
\* sockets) and sleeps; the finally closes the thread's sockets.
broadcast_turn(g) ==
    /\ At("beacon", g, "test") \in loops
    /\ IF inst.running
       THEN /\ Move("beacon", g, "test", "sleep")
            /\ UNCHANGED inst
       ELSE /\ Move("beacon", g, "test", "exited")
            /\ inst' = [inst EXCEPT !.bopen = @ \ {g}]
    /\ UNCHANGED notRestart

\* Line 186: time.sleep(BEACON_INTERVAL) returns.
broadcast_wake(g) ==
    /\ At("beacon", g, "sleep") \in loops
    /\ Move("beacon", g, "sleep", "test")
    /\ UNCHANGED <<inst, notRestart>>

\* _listen_for_beacons, lines 263 to 281: the thread binds its own socket and
\* stores it in _listen_sock.
listen_rebind(g) ==
    /\ At("listen", g, "bind") \in loops
    /\ inst' = [inst EXCEPT !.lopen = @ \cup {g}, !.listen_sock = g]
    /\ Move("listen", g, "bind", "test")
    /\ UNCHANGED notRestart

\* The finally of the listener, lines 323 to 331: it closes its own socket and
\* clears _listen_sock, whichever socket that names.
ListenFinally(g, from) ==
    /\ Move("listen", g, from, "exited")
    /\ inst' = [inst EXCEPT !.lopen = @ \ {g}, !.listen_sock = 0]

\* Lines 283 to 293: the tests before recvfrom: running, _listen_sock is None,
\* the descriptor of the thread's own socket.
listen_test(g) ==
    /\ At("listen", g, "test") \in loops
    /\ IF inst.running /\ inst.listen_sock # 0 /\ g \in inst.lopen
       THEN /\ Move("listen", g, "test", "recv")
            /\ UNCHANGED inst
       ELSE ListenFinally(g, "test")
    /\ UNCHANGED notRestart

\* Lines 295 to 321: recvfrom returns a datagram, which is handled, or times
\* out, and the loop goes round; on a socket closed meanwhile it times out or
\* raises OSError, which breaks the loop.
listen_recv(g) ==
    /\ At("listen", g, "recv") \in loops
    /\ \/ /\ Move("listen", g, "recv", "test")
          /\ UNCHANGED inst
       \/ /\ g \notin inst.lopen
          /\ ListenFinally(g, "recv")
    /\ UNCHANGED notRestart

\* _cleanup_stale_peers, line 335: the test of running.
cleanup_test(g) ==
    /\ At("cleanup", g, "test") \in loops
    /\ Move("cleanup", g, "test", IF inst.running THEN "sleep" ELSE "exited")
    /\ UNCHANGED <<inst, notRestart>>

\* Lines 336 to 351: the sleep returns and the pass over the table is made.
cleanup_pass(g) ==
    /\ At("cleanup", g, "sleep") \in loops
    /\ Move("cleanup", g, "sleep", "test")
    /\ UNCHANGED <<inst, notRestart>>

NextRestart ==
    \/ start_call
    \/ stop_call
    \/ \E g \in 1..MaxStarts : broadcast_setup(g)
    \/ \E g \in 1..MaxStarts : broadcast_turn(g)
    \/ \E g \in 1..MaxStarts : broadcast_wake(g)
    \/ \E g \in 1..MaxStarts : listen_rebind(g)
    \/ \E g \in 1..MaxStarts : listen_test(g)
    \/ \E g \in 1..MaxStarts : listen_recv(g)
    \/ \E g \in 1..MaxStarts : cleanup_test(g)
    \/ \E g \in 1..MaxStarts : cleanup_pass(g)

\* The one object, started and stopped in any order.
SpecRestart == InitLoop /\ [][NextRestart]_vars

\* A loop of an earlier start() finds its loop test true and goes round again.
GoesRound(kind, g) ==
    /\ At(kind, g, "test") \in loops
    /\ \E pc \in {"sleep", "recv"} : At(kind, g, pc) \in loops'

\* C33: whatever the calls of start() and stop() on one object, no loop of an
\* earlier start() goes round again once start() was called anew, so that at
\* most one loop of each kind stays live, and while the object runs the
\* listener of its latest start() is live.
C33_OneLoopEach ==
    /\ [](inst.running => \E t \in Live("listen") : t.gen = inst.starts)
    /\ [][\A kind \in LoopKinds : \A g \in 1..MaxStarts :
            g < inst.starts => ~GoesRound(kind, g)]_vars

\* The listener of the latest start() has ended while the object runs.
C33_NewListenerLives == inst.running => \E t \in Live("listen") : t.gen = inst.starts

\* Up to the first stop() and after it, before any second start(), at most one
\* loop of each kind is live and the listener runs while the object does.
C33_FirstStart ==
    inst.starts <= 1 =>
        /\ \A kind \in LoopKinds : Cardinality(Live(kind)) <= 1
        /\ C33_NewListenerLives

\* stop() has been called on n and has returned.
Stopped(n) == started[n] >= 0 /\ ~running[n] /\ ~joining[n]

\* C34: once stop() has returned, no step of a discovery thread changes the
\* peer table of the instance or invokes its callback.
C34_QuietAfterStop ==
    [][\A n \in Nodes : Stopped(n) => (peers'[n] = peers[n] /\ n \notin fired')]_vars

\* Once stop() has returned, the listener upserts nothing more, and no thread
\* but the reaper touches the table or invokes the callback.
C34_ListenerQuietAfterStop ==
    [][\A n \in Nodes :
        (Stopped(n) /\ ev'.kind # "reap") => (peers'[n] = peers[n] /\ n \notin fired')]_vars

\* C35: whatever datagram the listener has received, it is live while the
\* instance runs, with its socket open once bound, so that the next beacon of
\* another name is upserted.
C35_ListenerSurvives ==
    \A n \in Nodes :
        running[n] =>
            /\ listener[n]
            /\ (ev.node = n /\ ev.kind \in {"dropped", "died"}) => listening[n]

\* The listener survives the datagrams whose exception it catches: text that
\* is not JSON, and objects without name, ip or port.
C35_SurvivesCaught ==
    [][\A n \in Nodes :
        (TakesMalformed(n) /\ Raises(n, Head(inbox[n])) \in ListenerCatches) =>
            (listener'[n] /\ listening'[n])]_vars

\* ------------------------------------------------------------------------
\* The paths the server makes of the filename of a header

\* Most components of a filename.
MaxParts == 2
\* The components a client can put between the slashes of a filename.
Comps == {"a", "b", ".."}
\* The filenames of a header: relative or absolute, up to MaxParts components.
Filenames ==
    [abs : BOOLEAN, parts : UNION {[1..n -> Comps] : n \in 1..MaxParts}]

\* The directory the server was constructed with, as an absolute path.
output_dir == <<"srv", "out">>

\* pathlib's dir / name: an absolute name replaces the directory, a relative
\* one is appended as it is.
Join(dir, name) == IF name.abs THEN name.parts ELSE dir \o name.parts

\* pathlib's parent and with_suffix(suffix + '.partial').
Parent(path) == SubSeq(path, 1, Len(path) - 1)
WithPartial(path) == Parent(path) \o <<path[Len(path)] \o ".partial">>

\* The file the operating system reaches by an absolute path: '..' steps up,
\* and stays at the root.
RECURSIVE Resolve(_)
Resolve(path) ==
    IF path = <<>> THEN <<>>
    ELSE LET up == Resolve(Parent(path))
             c == path[Len(path)] IN
         IF c = ".." THEN (IF up = <<>> THEN <<>> ELSE Parent(up)) ELSE Append(up, c)

\* The path lies in the directory or is the directory.
Inside(path, dir) == Len(path) >= Len(dir) /\ SubSeq(path, 1, Len(dir)) = dir

Handlers == {"resumable", "single", "multi"}
\* A path that ends in '..' names a directory: open and unlink raise on it and
\* nothing is done.
IsDir(path) == path[Len(path)] = ".."
Touch(ops) ==
    touched' = touched \cup {[op |-> o[1], path |-> Resolve(o[2])] :
                                o \in {x \in ops : x[1] = "mkdir" \/ ~IsDir(x[2])}}
output_path == Join(output_dir, wp.name)

\* Lines 96-101, 247-252 and 312-317: the filename of the header is decoded and
\* used as it is.
path_header(h, name) ==
    /\ wp.pc = "idle"
    /\ wp' = [handler |-> h, name |-> name, pc |-> "mkdir"]
    /\ UNCHANGED <<touched, notPath>>

\* Lines 124-125, 260-261 and 326-327: the parent of the output path is created.
path_mkdir ==
    /\ wp.pc = "mkdir"
    /\ Touch({<<"mkdir", Parent(output_path)>>})
    /\ wp' = [wp EXCEPT !.pc = "open"]
    /\ UNCHANGED notPath

\* Lines 126-148: the resumable handler opens the .partial file for appending;
\* lines 264 and 330: the others create the output file.
path_open ==
    /\ wp.pc = "open"
    /\ IF wp.handler = "resumable"
       THEN /\ Touch({<<"append", WithPartial(output_path)>>})
            /\ wp' = [wp EXCEPT !.pc = "rename"]
       ELSE /\ Touch({<<"create", output_path>>})
            /\ wp' = [wp EXCEPT !.pc = "done"]
    /\ UNCHANGED notPath

\* Lines 184-186: the old output file is deleted and the .partial file is
\* renamed onto it.
path_rename ==
    /\ wp.pc = "rename"
    /\ Touch({<<"unlink", output_path>>, <<"replace", output_path>>})
    /\ wp' = [wp EXCEPT !.pc = "done"]
    /\ UNCHANGED notPath

NextPath ==
    \/ \E h \in Handlers, name \in Filenames : path_header(h, name)
    \/ path_mkdir
    \/ path_open
    \/ path_rename

\* One connection of each kind, for every filename.
SpecPath == InitLoop /\ [][NextPath]_vars

\* C36: every path the server creates, appends to, replaces or deletes lies in
\* output_dir, whatever the filename of the header.
C36_InsideOutputDir == \A t \in touched : Inside(t.path, output_dir)

\* The filename is relative and has no '..' component.
PlainName(name) == ~name.abs /\ \A i \in DOMAIN name.parts : name.parts[i] # ".."

\* For filenames that are relative and have no '..' component, every path
\* touched lies in output_dir.
C36_PlainNamesInside == PlainName(wp.name) => C36_InsideOutputDir

\* ------------------------------------------------------------------------
\* One file of send_multiple_files or send_directory on a disk that changes

\* Largest length of the file when its size is taken.
MaxFileLen == 3
\* Most bytes by which the file is longer than that when it is read.
MaxGrowth == 2
Senders == {"send_multiple_files", "send_directory"}

\* Lines 201-215 and 298-314: the size is taken with stat() and sent in the
\* header; the loop is entered with sent = 0.
send_file_header(who, n) ==
    /\ sf.pc = "idle"
    /\ sf' = [sender |-> who, filesize |-> n, length |-> n, sent |-> 0, changed |-> FALSE,
              pc |-> IF n > 0 THEN "send" ELSE "done"]
    /\ UNCHANGED notFile

\* Another process appends a byte to the file, or truncates it by one, while
\* it is being sent.
file_changes(by) ==
    /\ sf.pc = "send"
    /\ sf.length + by \in 0..(sf.filesize + MaxGrowth)
    /\ sf' = [sf EXCEPT !.length = @ + by, !.changed = TRUE]
    /\ UNCHANGED notFile

\* f.read(BUFFER_SIZE) at position sent of a file of the given length.
ReadLen(length, sent) == IF length > sent THEN Min(BUFFER_SIZE, length - sent) ELSE 0

\* Lines 217-224 and 316-323: one turn of 'while sent < filesize': the read,
\* the break on an empty read, sendall, sent += len(data).
send_file_turn ==
    /\ sf.pc = "send"
    /\ LET n == ReadLen(sf.length, sf.sent) IN
       sf' = [sf EXCEPT !.sent = @ + n,
                        !.pc = IF n = 0 \/ sf.sent + n >= sf.filesize THEN "done" ELSE "send"]
    /\ UNCHANGED notFile

NextFileSend ==
    \/ \E who \in Senders, n \in 0..MaxFileLen : send_file_header(who, n)
    \/ \E by \in {-1, 1} : file_changes(by)
    \/ send_file_turn

\* One file of a multi-file or directory send, changed at any time by another
\* process.
SpecFileSend == InitLoop /\ [][NextFileSend]_vars

\* C37: when the loop of a file is over, the sender has written exactly the
\* bytes the header declared, also when the file grew or shrank meanwhile.
C37_DeclaredBytesSent == sf.pc = "done" => sf.sent = sf.filesize

\* When the file did not change while it was sent, exactly the declared bytes
\* are written.
C37_UnchangedFileSent == (sf.pc = "done" /\ ~sf.changed) => sf.sent = sf.filesize

\* ------------------------------------------------------------------------
\* The destination file under an ER reply

\* The resumable receiver has replied ER on the connection.
RepliedER == cproto = MAGIC_RESUMABLE /\ statuses = <<"ER">>

\* C38: whenever the resumable receiver replies ER, every file that was at a
\* destination path when the connection was made is still there, unchanged.
C38_ErKeepsDestination ==
    RepliedER => \A name \in Names : dest0[name].exists => dest[name] = dest0[name]

\* An ER that follows a digest mismatch, or an unlink that failed, leaves the
\* destination as it was.
C38_ErWithoutRenameKeepsDestination ==
    (RepliedER /\ fault # "replace") => dest = dest0

====
